---- MODULE Spec2Model ----
(***************************************************************************)
(* WebRequestTimer: the request scheduler (modules/request_scheduler.py),  *)
(* the retrying HTTP client (modules/web_request_client.py), the history   *)
(* store (modules/request_logger.py) and the change detector               *)
(* (modules/udp_notifier.py), each as a state machine over its own         *)
(* variables.  One specification per component:                            *)
(*   Spec          the scheduler                                           *)
(*   ClientSpec    one send_request call                                   *)
(*   LoggerSpec    concurrent log_request_result calls                     *)
(*   DetectorSpec  the response change detector                            *)
(*   SenderSpec    the debounced UDP sender                                *)
(*   PayloadSpec   the notification payload, as a function of its inputs   *)
(*   HashSpec      the response hash, as a function of the body            *)
(*   RegistrySpec  add_schedule/remove_schedule over arbitrary configs     *)
(*   DisableSpec   the scheduler, also driven with enabled = false configs *)
(*   CleanupSpec   cleanup_old_logs over a stored history                  *)
(*   QuerySpec     get_request_history over a stored history               *)
(*   PipelineSpec  one execution through _request_callback (main.py)       *)
(*   DormantSpec   the scheduler when a next run time cannot be computed   *)
(*   ControlSpec   the scheduler behind _scheduler_callback (main.py)      *)
(*   TickSpec      DormantSpec with a loop and tasks that are scheduled    *)
(*   RunSpec       one job, with executions that end                       *)
(*   DebounceSpec  the sender driven from the event loop, with time        *)
(***************************************************************************)
EXTENDS Integers, Sequences, FiniteSets, TLC

VARIABLES
    \* ---- RequestScheduler ----
    now,            \* datetime.now(timezone.utc), in whole seconds
    objs,           \* the ScheduleJob objects alive (registered, or still held by a task)
    jobs,           \* RequestScheduler.jobs: job id -> slot of its ScheduleJob, 0 when absent
    is_running,     \* RequestScheduler.is_running
    loop_alive,     \* number of _scheduler_loop tasks created and not cancelled
    loop_cancelling,\* a _scheduler_loop was cancelled and has not yet observed it
    stop_pc,        \* position of the stop() coroutine in flight
    stop_wait,      \* slot of the job task stop() awaits, 0 when none
    stop_visited,   \* job ids stop()'s iteration over self.jobs has passed
    stop_size,      \* len(self.jobs) when stop()'s iteration began
    ctl,            \* history: the last request served by _scheduler_callback
    disabled,       \* history: ids whose latest add_schedule call had enabled false
    \* ---- WebRequestClient.send_request ----
    c_pc, c_retry_count, c_attempt, c_outcomes, c_inflight, c_result,
    c_body,         \* schedule_config['body']['timestamp'], the dict send_request is given
    c_clock,        \* datetime.now() of the client
    c_sent,         \* history: per attempt, the time it began and the timestamp it sent
    \* ---- RequestLogger ----
    db_history, db_stats, db_lock, l_pc, l_arg, l_txn, l_log,
    l_done,         \* history: number of log_request_result calls that have returned
    q_main,         \* request_logger.py is run as a script: its line 507 has bound timedelta
    q_now,          \* datetime.now(timezone.utc) at the store's maintenance and query calls
    q_call,         \* history: the latest cleanup_old_logs / get_request_history call
    q_out,          \* what the latest get_request_history call returned
    \* ---- ResponseChangeDetector ----
    udp_config, response_hashes, notified_errors, emitted, d_last, d_prev,
    \* ---- DelayedUDPSender ----
    s_now,          \* the wall clock, in units of the debounce delay's resolution
    s_delay,        \* DelayedUDPSender.delay
    s_timer,        \* DelayedUDPSender.timer: the Timer referenced, 0 for None
    s_timers,       \* the Timer objects created so far, in order of creation
    s_sent,         \* the messages handed to send(), in order
    s_pc,           \* position of each thread's send_message call
    s_msg,          \* the message of each thread's send_message call
    \* ---- _send_udp_notification's payload and _calculate_response_hash ----
    p_in, p_out, h_in, h_out

schedVars == <<now, objs, jobs, is_running, loop_alive, loop_cancelling,
               stop_pc, stop_wait, stop_visited, stop_size, disabled, ctl>>
clientVars == <<c_pc, c_retry_count, c_attempt, c_outcomes, c_inflight, c_result,
                c_body, c_clock, c_sent>>
storeVars == <<q_main, q_now, q_call, q_out>>
loggerVars == <<db_history, db_stats, db_lock, l_pc, l_arg, l_txn, l_log, l_done,
                storeVars>>
detectorVars == <<udp_config, response_hashes, notified_errors, emitted, d_last, d_prev>>
senderVars == <<s_now, s_delay, s_timer, s_timers, s_sent, s_pc, s_msg>>
pureVars == <<p_in, p_out, h_in, h_out>>
vars == <<schedVars, clientVars, loggerVars, detectorVars, senderVars, pureVars>>

\* Python's None, where the value is otherwise a time or a count.
None == -1

(***************************************************************************)
(* Bounds                                                                  *)
(***************************************************************************)
MaxTime == 3
MaxOrphans == 1
MaxRuns == 1

JobIds == {"j1", "j2"}

\* Where the ScheduleJob objects live: the object registered under a job id
\* has that id's slot; an object removed from self.jobs while its task is
\* live has one of the orphan slots until the task is done.
SlotOf(j) == IF j = "j1" THEN 1 ELSE 2
JobSlots == {SlotOf(j) : j \in JobIds}
OrphanSlots == 3..(2 + MaxOrphans)
Slots == JobSlots \cup OrphanSlots

(***************************************************************************)
(* RequestScheduler                                                        *)
(***************************************************************************)

\* The schedule configurations handed to add_schedule / update_schedule.
\* cron_period stands for a cron expression whose grid has that period (see
\* OnGrid); 0 stands for an expression croniter cannot parse.
\* A key the configuration dict does not hold.
Absent == "<absent>"

SchedConfigs ==
    { [id |-> "j1", enabled |-> TRUE, schedule_type |-> "interval",
       interval_seconds |-> i, cron_period |-> 0,
       url |-> "http://a", method |-> "GET"] : i \in {0, 1} }
    \cup
    { [id |-> "j2", enabled |-> TRUE, schedule_type |-> "cron",
       interval_seconds |-> 0, cron_period |-> p,
       url |-> "http://a", method |-> "GET"] : p \in {0, 2} }

\* A configuration with enabled false.
DisabledConfigs ==
    { [id |-> "j1", enabled |-> FALSE, schedule_type |-> "interval",
       interval_seconds |-> 1, cron_period |-> 0,
       url |-> "http://a", method |-> "GET"] }

NoConfig == [id |-> "", enabled |-> FALSE, schedule_type |-> "",
             interval_seconds |-> 0, cron_period |-> 0,
             url |-> "", method |-> ""]

\* A slot holding no ScheduleJob.
FreeObj == [id |-> "", cfg |-> NoConfig, next_run_time |-> None,
            last_run_time |-> None, is_running |-> FALSE, run_count |-> 0,
            error_count |-> 0, last_result |-> "none", task |-> "none",
            cancel_req |-> FALSE]

\* ScheduleJob(id=..., schedule_config=..., next_run_time=...)
ScheduleJob(cfg, next) == [FreeObj EXCEPT !.id = cfg.id, !.cfg = cfg,
                                          !.next_run_time = next]

\* The cron grid of period p: the instants p-1, 2p-1, 3p-1, ...
OnGrid(t, p) == (t + 1) % p = 0

\* croniter(cron_expression, from_time).get_next(datetime): the first grid
\* instant strictly after from_time.
CronNextInclusive(from, p) == ((from + p) \div p) * p - 1
CronNext(from, p) == (((from + 1) \div p) + 1) * p - 1

\* _calculate_next_run_time(schedule_config, from_time)
CalculateNextRunTime(cfg, from) ==
    LET schedule_type == IF cfg.schedule_type = Absent THEN "interval"
                         ELSE cfg.schedule_type
    IN IF schedule_type = "interval"
       THEN IF cfg.interval_seconds > 0 THEN from + cfg.interval_seconds ELSE None
       ELSE IF schedule_type = "cron"
       THEN IF cfg.cron_period > 0 THEN CronNext(from, cfg.cron_period) ELSE None
       ELSE None

\* job.task and not job.task.done()
TaskLive(o) == o.task \in {"created", "running"}

Registered == {j \in JobIds : jobs[j] # 0}

\* The base time the finally block of _execute_job hands to
\* _calculate_next_run_time.
RescheduleFromNow(o) == now
RescheduleFrom(o) == o.last_run_time

\* A ScheduleJob no longer in self.jobs is reachable only through its own
\* task: what is kept of it is its id and its task.
Orphan(o) == [FreeObj EXCEPT !.id = o.id, !.task = o.task,
                             !.is_running = o.is_running,
                             !.cancel_req = o.cancel_req]

\* An orphan whose task is done is garbage.
Collect(os) ==
    [s \in Slots |-> IF s \in OrphanSlots /\ ~TaskLive(os[s]) THEN FreeObj ELSE os[s]]

FreeOrphanSlots(os) == {s \in OrphanSlots : os[s] = FreeObj}

\* A remove_schedule that drops the job and leaves its task alone.
RemoveKeepsTask(os, j) ==
    LET s == SlotOf(j)
        t == CHOOSE x \in FreeOrphanSlots(os) : \A y \in FreeOrphanSlots(os) : x <= y
    IN IF TaskLive(os[s])
       THEN [os EXCEPT ![t] = Orphan(os[s]), ![s] = FreeObj]
       ELSE [os EXCEPT ![s] = FreeObj]

\* remove_schedule's effect on the objects: the task, if live, is cancelled
\* (job.task.cancel()) and the object leaves self.jobs (del self.jobs[job_id]).
RemoveEffect(os, j) ==
    LET s == SlotOf(j)
        t == CHOOSE x \in FreeOrphanSlots(os) : \A y \in FreeOrphanSlots(os) : x <= y
    IN IF TaskLive(os[s])
       THEN [os EXCEPT ![t] = Orphan([os[s] EXCEPT !.cancel_req = TRUE]), ![s] = FreeObj]
       ELSE [os EXCEPT ![s] = FreeObj]

\* Room for the removed object, should its task be live.
CanRemove(j) == TaskLive(objs[SlotOf(j)]) => FreeOrphanSlots(objs) # {}

\* stop() keeps awaiting the task of a job removed meanwhile.
WaitAfterRemove(j) ==
    IF stop_wait = SlotOf(j)
    THEN CHOOSE x \in FreeOrphanSlots(objs) : \A y \in FreeOrphanSlots(objs) : x <= y
    ELSE stop_wait

\* No request has been served by _scheduler_callback yet.
NoRequest == [n |-> 0, action |-> "", outside |-> FALSE, returned |-> FALSE]

\* The scheduler's actions leave the other components alone.
SchedFrame == UNCHANGED <<clientVars, loggerVars, detectorVars, senderVars, pureVars>>

\* remove_schedule(job_id)
RemoveSchedule(j) ==
    /\ IF jobs[j] = 0
       THEN UNCHANGED <<objs, jobs, stop_visited, stop_wait>>
       ELSE /\ CanRemove(j)
            /\ objs' = RemoveEffect(objs, j)
            /\ jobs' = [jobs EXCEPT ![j] = 0]
            /\ stop_visited' = stop_visited \ {j}
            /\ stop_wait' = WaitAfterRemove(j)
    /\ UNCHANGED <<now, is_running, loop_alive, loop_cancelling, stop_pc, stop_size>>
    /\ UNCHANGED <<disabled, ctl>>
    /\ SchedFrame

\* add_schedule(schedule_config) and update_schedule(schedule_config)
AddSchedule(cfg) ==
    /\ disabled' = IF cfg.id = "" THEN disabled
                   ELSE IF cfg.enabled THEN disabled \ {cfg.id}
                   ELSE disabled \cup {cfg.id}
    /\ IF cfg.id = "" \/ ~cfg.enabled
       THEN UNCHANGED <<objs, jobs, stop_visited, stop_wait>>
       ELSE LET j == cfg.id
                present == jobs[j] # 0
                os1 == IF present THEN RemoveEffect(objs, j) ELSE objs
                next == CalculateNextRunTime(cfg, now)
            IN /\ present => CanRemove(j)
               /\ stop_visited' = stop_visited \ {j}
               /\ stop_wait' = IF present THEN WaitAfterRemove(j) ELSE stop_wait
               /\ IF next = None
                  THEN /\ objs' = os1
                       /\ jobs' = [jobs EXCEPT ![j] = 0]
                  ELSE /\ objs' = [os1 EXCEPT ![SlotOf(j)] = ScheduleJob(cfg, next)]
                       /\ jobs' = [jobs EXCEPT ![j] = SlotOf(j)]
    /\ UNCHANGED <<now, is_running, loop_alive, loop_cancelling, stop_pc, stop_size>>
    /\ UNCHANGED ctl
    /\ SchedFrame

\* A start() without the is_running test.
StartUnguarded ==
    /\ is_running' = TRUE
    /\ loop_alive' = loop_alive + 1
    /\ UNCHANGED <<now, objs, jobs, loop_cancelling, stop_pc, stop_wait,
                   stop_visited, stop_size>>
    /\ UNCHANGED <<disabled, ctl>>
    /\ SchedFrame

\* start()
Start ==
    /\ IF is_running
       THEN UNCHANGED <<is_running, loop_alive>>
       ELSE /\ is_running' = TRUE
            /\ loop_alive' = loop_alive + 1
    /\ UNCHANGED <<now, objs, jobs, loop_cancelling, stop_pc, stop_wait,
                   stop_visited, stop_size>>
    /\ UNCHANGED <<disabled, ctl>>
    /\ SchedFrame

\* stop(), up to its first await: clears the flag and cancels scheduler_task.
StopBegin ==
    /\ stop_pc = "idle"
    /\ IF ~is_running
       THEN UNCHANGED <<is_running, loop_alive, loop_cancelling, stop_pc>>
       ELSE /\ is_running' = FALSE
            /\ loop_alive' = loop_alive - 1
            /\ loop_cancelling' = TRUE
            /\ stop_pc' = "await_loop"
    /\ UNCHANGED <<now, objs, jobs, stop_wait, stop_visited, stop_size>>
    /\ UNCHANGED <<disabled, ctl>>
    /\ SchedFrame

\* The cancelled _scheduler_loop observes CancelledError in its sleep and ends.
LoopCancelled ==
    /\ loop_cancelling
    /\ loop_cancelling' = FALSE
    /\ UNCHANGED <<now, objs, jobs, is_running, loop_alive, stop_pc, stop_wait,
                   stop_visited, stop_size>>
    /\ UNCHANGED <<disabled, ctl>>
    /\ SchedFrame

\* stop(): "await self.scheduler_task" returns; the iteration over
\* self.jobs.values() begins.
StopLoopDone ==
    /\ stop_pc = "await_loop"
    /\ ~loop_cancelling
    /\ stop_pc' = "cancel_jobs"
    /\ stop_visited' = {}
    /\ stop_size' = Cardinality(Registered)
    /\ stop_wait' = 0
    /\ UNCHANGED <<now, objs, jobs, is_running, loop_alive, loop_cancelling>>
    /\ UNCHANGED <<disabled, ctl>>
    /\ SchedFrame

\* stop(): one step of "for job in self.jobs.values()": the dict iterator
\* raises RuntimeError when the dict changed size, else the next job's task
\* is cancelled and awaited, else the iteration and stop() end.
StopVisit ==
    /\ stop_pc = "cancel_jobs"
    /\ stop_wait = 0
    /\ IF Cardinality(Registered) # stop_size
       THEN /\ stop_pc' = "idle"
            /\ stop_visited' = {}
            /\ UNCHANGED <<objs, stop_wait>>
       ELSE IF Registered \ stop_visited = {}
       THEN /\ stop_pc' = "idle"
            /\ stop_visited' = {}
            /\ UNCHANGED <<objs, stop_wait>>
       ELSE \E j \in Registered \ stop_visited :
              /\ stop_visited' = stop_visited \cup {j}
              /\ stop_pc' = stop_pc
              /\ IF TaskLive(objs[jobs[j]])
                 THEN /\ objs' = [objs EXCEPT ![jobs[j]].cancel_req = TRUE]
                      /\ stop_wait' = jobs[j]
                 ELSE UNCHANGED <<objs, stop_wait>>
    /\ UNCHANGED <<now, jobs, is_running, loop_alive, loop_cancelling, stop_size>>
    /\ UNCHANGED <<disabled, ctl>>
    /\ SchedFrame

\* The job may be started again: the model follows a job for MaxRuns runs.
\* The bound is on the runs the loop schedules; a job without a next run
\* time is left to the loop's own test.
WithinRuns(o) ==
    \/ o.next_run_time = None
    \/ o.run_count < MaxRuns /\ o.error_count < MaxRuns

\* The job is due at this tick.
DueWithoutNextRun(o) == now >= o.next_run_time /\ ~o.is_running
DueAnyTime(o) == o.next_run_time # None /\ ~o.is_running
Due(o) == o.next_run_time # None /\ now >= o.next_run_time /\ ~o.is_running

\* A tick loop that waits for the executions in flight.
TickAfterExecutions ==
    /\ \A s \in Slots : objs[s].task # "running"
    /\ loop_alive > 0
    /\ is_running
    /\ \A s \in Slots : objs[s].task # "created"
    /\ objs' = [s \in Slots |->
                  IF (\E j \in JobIds : jobs[j] = s) /\ Due(objs[s]) /\ WithinRuns(objs[s])
                  THEN [objs[s] EXCEPT !.task = "created", !.cancel_req = FALSE]
                  ELSE objs[s]]
    /\ UNCHANGED <<now, jobs, is_running, loop_alive, loop_cancelling, stop_pc,
                   stop_wait, stop_visited, stop_size>>
    /\ UNCHANGED <<disabled, ctl>>
    /\ SchedFrame

\* One iteration of _scheduler_loop.  Tasks created by an earlier iteration
\* take their first step before the loop wakes from its sleep.
Tick ==
    /\ loop_alive > 0
    /\ is_running
    /\ \A s \in Slots : objs[s].task # "created"
    /\ objs' = [s \in Slots |->
                  IF (\E j \in JobIds : jobs[j] = s) /\ Due(objs[s]) /\ WithinRuns(objs[s])
                  THEN [objs[s] EXCEPT !.task = "created", !.cancel_req = FALSE]
                  ELSE objs[s]]
    /\ UNCHANGED <<now, jobs, is_running, loop_alive, loop_cancelling, stop_pc,
                   stop_wait, stop_visited, stop_size>>
    /\ UNCHANGED <<disabled, ctl>>
    /\ SchedFrame

\* stop() is woken when the task it awaits is done.
Woken(s) == IF stop_wait = s THEN 0 ELSE stop_wait

\* _execute_job, first step: a task cancelled before it ran never runs its
\* body; otherwise the job enters Running.
ExecStart(s) ==
    /\ objs[s].task = "created"
    /\ IF objs[s].cancel_req
       THEN /\ objs' = Collect([objs EXCEPT ![s].task = "done"])
            /\ stop_wait' = Woken(s)
       ELSE /\ objs' = [objs EXCEPT ![s].is_running = TRUE,
                                    ![s].last_run_time = now,
                                    ![s].task = "running"]
            /\ UNCHANGED stop_wait
    /\ UNCHANGED <<now, jobs, is_running, loop_alive, loop_cancelling, stop_pc,
                   stop_visited, stop_size>>
    /\ UNCHANGED <<disabled, ctl>>
    /\ SchedFrame

\* The finally block of _execute_job.
Finally(o) ==
    [o EXCEPT !.is_running = FALSE,
              !.next_run_time = CalculateNextRunTime(o.cfg, RescheduleFrom(o)),
              !.task = "done"]

\* _execute_job: request_callback returned a result or raised.
ExecFinishFatal(s, outcome) ==
    /\ objs[s].task = "running"
    /\ ~objs[s].cancel_req
    /\ LET o == objs[s]
           o1 == IF outcome = "exception"
                 THEN [o EXCEPT !.error_count = @ + 1, !.last_result = "exception"]
                 ELSE [o EXCEPT !.run_count = @ + 1,
                                !.error_count = IF outcome = "failure" THEN @ + 1 ELSE @,
                                !.last_result = outcome]
       IN objs' = Collect([objs EXCEPT ![s] = Finally(o1)])
    /\ stop_wait' = Woken(s)
    /\ is_running' = (is_running /\ outcome # "exception")
    /\ UNCHANGED <<now, jobs, loop_alive, loop_cancelling, stop_pc,
                   stop_visited, stop_size>>
    /\ UNCHANGED <<disabled, ctl>>
    /\ SchedFrame
ExecFinish(s, outcome) ==
    /\ objs[s].task = "running"
    /\ ~objs[s].cancel_req
    /\ LET o == objs[s]
           o1 == IF outcome = "exception"
                 THEN [o EXCEPT !.error_count = @ + 1, !.last_result = "exception"]
                 ELSE [o EXCEPT !.run_count = @ + 1,
                                !.error_count = IF outcome = "failure" THEN @ + 1 ELSE @,
                                !.last_result = outcome]
       IN objs' = Collect([objs EXCEPT ![s] = Finally(o1)])
    /\ stop_wait' = Woken(s)
    /\ UNCHANGED <<now, jobs, is_running, loop_alive, loop_cancelling, stop_pc,
                   stop_visited, stop_size>>
    /\ UNCHANGED <<disabled, ctl>>
    /\ SchedFrame

\* A cancelled _execute_job that ends without its finally block.
ExecCancelledNoFinally(s) ==
    /\ objs[s].task = "running"
    /\ objs[s].cancel_req
    /\ objs' = [objs EXCEPT ![s].task = "done"]
    /\ stop_wait' = Woken(s)
    /\ UNCHANGED <<now, jobs, is_running, loop_alive, loop_cancelling, stop_pc,
                   stop_visited, stop_size>>
    /\ UNCHANGED <<disabled, ctl>>
    /\ SchedFrame

\* _execute_job: the awaited request_callback is cancelled; CancelledError
\* passes "except Exception" and the finally block runs.
ExecCancelled(s) ==
    /\ objs[s].task = "running"
    /\ objs[s].cancel_req
    /\ objs' = Collect([objs EXCEPT ![s] = Finally(objs[s])])
    /\ stop_wait' = Woken(s)
    /\ UNCHANGED <<now, jobs, is_running, loop_alive, loop_cancelling, stop_pc,
                   stop_visited, stop_size>>
    /\ UNCHANGED <<disabled, ctl>>
    /\ SchedFrame

\* The clock moves on.  A task just created takes its first step, and a
\* cancelled sleep ends, in the event loop's next iteration: before then.
AdvanceTime ==
    /\ now < MaxTime
    /\ \A s \in Slots : objs[s].task # "created"
    /\ ~loop_cancelling
    /\ now' = now + 1
    /\ UNCHANGED <<objs, jobs, is_running, loop_alive, loop_cancelling, stop_pc,
                   stop_wait, stop_visited, stop_size>>
    /\ UNCHANGED <<disabled, ctl>>
    /\ SchedFrame

SchedInit ==
    /\ now = 0
    /\ objs = [s \in Slots |-> FreeObj]
    /\ jobs = [j \in JobIds |-> 0]
    /\ is_running = FALSE
    /\ loop_alive = 0
    /\ loop_cancelling = FALSE
    /\ stop_pc = "idle"
    /\ stop_wait = 0
    /\ stop_visited = {}
    /\ stop_size = 0
    /\ disabled = {}
    /\ ctl = NoRequest

SchedNext ==
    \/ \E cfg \in SchedConfigs : AddSchedule(cfg)
    \/ \E j \in JobIds : RemoveSchedule(j)
    \/ Start
    \/ StopBegin
    \/ LoopCancelled
    \/ StopLoopDone
    \/ StopVisit
    \/ Tick
    \/ \E s \in Slots : ExecStart(s)
    \/ \E s \in Slots, outcome \in {"success", "failure", "exception"} : ExecFinish(s, outcome)
    \/ \E s \in Slots : ExecCancelled(s)
    \/ AdvanceTime

(***************************************************************************)
(* Initial values of the components a specification leaves alone.          *)
(***************************************************************************)
ClientIdle ==
    /\ c_pc = "idle" /\ c_retry_count = 0 /\ c_attempt = 0
    /\ c_outcomes = <<>> /\ c_inflight = 0 /\ c_result = [kind |-> "unset"]
    /\ c_body = <<>> /\ c_clock = 0 /\ c_sent = <<>>

LoggerIdle ==
    /\ db_history = <<>> /\ db_stats = <<>> /\ db_lock = "" /\ l_pc = <<>>
    /\ l_arg = <<>> /\ l_txn = <<>> /\ l_log = <<>> /\ l_done = 0
    /\ q_main = FALSE /\ q_now = 0 /\ q_call = <<>> /\ q_out = <<>>

DetectorIdle ==
    /\ udp_config = <<>> /\ response_hashes = <<>> /\ notified_errors = {}
    /\ emitted = <<>> /\ d_last = <<>> /\ d_prev = <<>>

SenderIdle ==
    /\ s_now = 0 /\ s_delay = 0 /\ s_timer = 0 /\ s_timers = <<>>
    /\ s_sent = <<>> /\ s_pc = <<>> /\ s_msg = <<>>

PureIdle == p_in = <<>> /\ p_out = <<>> /\ h_in = <<>> /\ h_out = <<>>

Init == SchedInit /\ ClientIdle /\ LoggerIdle /\ DetectorIdle /\ SenderIdle /\ PureIdle
Next == SchedNext
Spec == Init /\ [][Next]_vars

(***************************************************************************)
(* Scheduler claims                                                        *)
(***************************************************************************)

\* The execution units of job id j between their start and their termination.
InFlight(j) == {s \in Slots : objs[s].id = j /\ objs[s].task = "running"}

\* The interval and cron jobs registered and not replaced since their last
\* execution ended.
Completed(s, type) ==
    /\ objs[s].task = "done"
    /\ objs[s].last_run_time # None
    /\ objs[s].cfg.schedule_type = type

\* An execution of the job in slot s ends in this step.
Completes(s, type) ==
    /\ objs[s].task = "running"
    /\ objs'[s].task = "done"
    /\ objs[s].cfg.schedule_type = type

\* C1: for every job id at most one execution unit is between its start and
\* its termination, in every reachable state.
C1_AtMostOneInFlight == \A j \in JobIds : Cardinality(InFlight(j)) <= 1

EarliestAfter(t, from, p) == OnGrid(t, p) /\ t > from /\ t - p <= from

MaxRetry == 2

\* The configured retry_count values: nothing validates the field, so a
\* negative count reaches send_request like any other.
RetryCounts == (0 - 1)..MaxRetry

\* What one _execute_request can come to: a response with a status code, or
\* a transport error or timeout raised by the session.
StatusCodes == {200, 399, 400, 500}
Outcomes == { [kind |-> "status", code |-> c, msg |-> ""] : c \in StatusCodes }
            \cup { [kind |-> "error", code |-> 0, msg |-> m] : m \in {"timeout", "refused"} }

\* "if response.status >= 400: raise aiohttp.ClientResponseError(...)"
IsErrorStatusStrict(code) == code > 400
IsErrorStatus(code) == code >= 400

\* _execute_request raises for this outcome.
Raises(o) == o.kind = "error" \/ IsErrorStatus(o.code)

\* str(e) of the exception the outcome raises.
ErrorText(o) == IF o.kind = "error" THEN o.msg
                ELSE IF o.code = 400 THEN "HTTP 400" ELSE "HTTP 500"

\* "if attempt < retry_count": another attempt follows the failed one.
RetriesLeftOffByOne(attempt, retry_count) == attempt + 1 < retry_count
RetriesLeft(attempt, retry_count) == attempt < retry_count

\* The dict send_request returns on success.
SuccessResult(o, attempt) ==
    [kind |-> "result", success |-> TRUE, attempt |-> attempt + 1,
     status_code |-> o.code, has_body |-> TRUE, error |-> ""]

\* The dict send_request returns when the last attempt failed.
FailureResult(o, attempt) ==
    [kind |-> "result", success |-> FALSE, attempt |-> attempt + 1,
     status_code |-> None, has_body |-> FALSE, error |-> ErrorText(o)]

\* body['timestamp'] of a structured body: the text "auto", another text
\* (the isoformat of a time), or no such key.
AutoTimestamp == [kind |-> "auto", at |-> 0]
NoTimestamp == [kind |-> "absent", at |-> 0]
IsoFormat(time) == [kind |-> "text", at |-> time]

\* _execute_request: "if 'timestamp' in body and body['timestamp'] == 'auto':
\* body['timestamp'] = datetime.now().isoformat()" and "json_data = body";
\* body is the dict of schedule_config itself.
SentBody(body, current) ==
    LET replaced == IF body = AutoTimestamp THEN IsoFormat(current) ELSE body
    IN [json_data |-> replaced, body |-> replaced]

\* The client's actions leave the other components alone.
ClientFrame == UNCHANGED <<schedVars, loggerVars, detectorVars, senderVars, pureVars>>

\* "for attempt in range(retry_count + 1)": the next iteration begins and
\* _execute_request is awaited.
AttemptBegin ==
    /\ c_pc = "loop"
    /\ c_attempt < c_retry_count + 1
    /\ c_pc' = "request"
    /\ c_inflight' = c_inflight + 1
    /\ c_body' = SentBody(c_body, c_clock).body
    /\ c_sent' = Append(c_sent, [at |-> c_clock,
                                 timestamp |-> SentBody(c_body, c_clock).json_data])
    /\ UNCHANGED <<c_retry_count, c_attempt, c_outcomes, c_result, c_clock>>
    /\ ClientFrame

\* The range is exhausted: the function body ends without a return statement.
LoopExhausted ==
    /\ c_pc = "loop"
    /\ ~(c_attempt < c_retry_count + 1)
    /\ c_pc' = "done"
    /\ c_result' = [kind |-> "none"]
    /\ UNCHANGED <<c_retry_count, c_attempt, c_outcomes, c_inflight>>
    /\ UNCHANGED <<c_body, c_clock, c_sent>>
    /\ ClientFrame

\* _execute_request ends: it returned a response below 400, or it raised.
AttemptEnd(o) ==
    /\ c_pc = "request"
    /\ c_inflight' = c_inflight - 1
    /\ c_outcomes' = Append(c_outcomes, o)
    /\ IF ~Raises(o)
       THEN /\ c_result' = SuccessResult(o, c_attempt)
            /\ c_pc' = "done"
       ELSE IF RetriesLeft(c_attempt, c_retry_count)
       THEN /\ c_pc' = "sleep"
            /\ UNCHANGED c_result
       ELSE /\ c_result' = FailureResult(o, c_attempt)
            /\ c_pc' = "done"
    /\ UNCHANGED <<c_retry_count, c_attempt>>
    /\ c_clock' = c_clock + 1
    /\ UNCHANGED <<c_body, c_sent>>
    /\ ClientFrame

\* "await asyncio.sleep(retry_delay)" returns and the loop goes on.
RetrySleepDone ==
    /\ c_pc = "sleep"
    /\ c_pc' = "loop"
    /\ c_attempt' = c_attempt + 1
    /\ UNCHANGED <<c_retry_count, c_outcomes, c_inflight, c_result>>
    /\ c_clock' = c_clock + 1
    /\ UNCHANGED <<c_body, c_sent>>
    /\ ClientFrame

\* send_request(schedule_config) is called.
ClientInit ==
    /\ c_pc = "loop"
    /\ c_retry_count \in RetryCounts
    /\ c_attempt = 0
    /\ c_outcomes = <<>>
    /\ c_inflight = 0
    /\ c_result = [kind |-> "unset"]
    /\ c_body \in {AutoTimestamp, NoTimestamp}
    /\ c_clock = 0
    /\ c_sent = <<>>
    /\ SchedInit /\ LoggerIdle /\ DetectorIdle /\ SenderIdle /\ PureIdle

ClientNext ==
    \/ AttemptBegin
    \/ LoopExhausted
    \/ \E o \in Outcomes : AttemptEnd(o)
    \/ RetrySleepDone

ClientSpec == ClientInit /\ [][ClientNext]_vars

\* Every attempt made so far failed.
AllFailed == \A i \in 1..Len(c_outcomes) :
                c_outcomes[i].kind = "error" \/ c_outcomes[i].code >= 400

\* C4: when every attempt fails, exactly retry_count + 1 attempts are made,
\* never two at once, and the result has success=false, status_code=null,
\* response_body=null, attempt = retry_count + 1 and the last attempt's error.
C4_RetryBound ==
    /\ c_inflight <= 1
    /\ (c_pc = "done" /\ AllFailed) =>
          /\ Len(c_outcomes) = c_retry_count + 1
          /\ Len(c_outcomes) > 0 =>
                /\ c_result.kind = "result"
                /\ c_result.success = FALSE
                /\ c_result.status_code = None
                /\ c_result.has_body = FALSE
                /\ c_result.attempt = c_retry_count + 1
                /\ c_result.error = ErrorText(c_outcomes[Len(c_outcomes)])

\* C4 witness: retry_count = 2 and three failed attempts, the last an HTTP 500.
C4_Witness ==
    /\ c_pc = "done" /\ AllFailed /\ c_retry_count = 2 /\ Len(c_outcomes) = 3
    /\ c_outcomes[3].code = 500

\* C5: a failed attempt (error, or status >= 400) is followed by another
\* while fewer than retry_count + 1 were made; the first attempt with status
\* < 400 ends the call with success=true; attempt is the number of attempts made.
C5_RetryUntilSuccess ==
    /\ \A i \in 1..(Len(c_outcomes) - 1) :
          c_outcomes[i].kind = "error" \/ c_outcomes[i].code >= 400
    /\ (c_pc = "done" /\ Len(c_outcomes) > 0) =>
          LET last == c_outcomes[Len(c_outcomes)]
              ok == last.kind = "status" /\ last.code < 400
          IN /\ c_result.kind = "result"
             /\ c_result.success = ok
             /\ c_result.attempt = Len(c_outcomes)
             /\ ~ok => Len(c_outcomes) = c_retry_count + 1
    /\ c_pc = "sleep" => Len(c_outcomes) < c_retry_count + 1

\* C5 witness: a failed attempt, then a success on the second attempt.
C5_Witness ==
    /\ c_pc = "done" /\ Len(c_outcomes) = 2
    /\ c_outcomes[1].code = 400 /\ c_outcomes[2].code = 399
    /\ c_result.success /\ c_result.attempt = 2

\* C6: for every retry_count and every sequence of attempt outcomes,
\* send_request ends by returning a result whose success is true or false.
C6_AlwaysAResult ==
    c_pc = "done" => (c_result.kind = "result" /\ c_result.success \in BOOLEAN)

(***************************************************************************)
(* RequestLogger: log_request_result, _save_to_database and                *)
(* _update_schedule_stats, called from the event-loop thread (the job      *)
(* executions) and from the tray thread (the ad-hoc test request).         *)
(***************************************************************************)
MaxCalls == 3

Threads == {"loop", "tray"}
ResponseTimes == {100, 200, 300}

\* 'timestamp': start_time.isoformat(), a text that is not None; which text
\* it is makes no difference to the store.
Timestamp == 1

\* The request results handed to log_request_result.
LogResults ==
    { [job |-> j, success |-> TRUE, response_time_ms |-> t, timestamp |-> Timestamp] :
          j \in JobIds, t \in ResponseTimes }
    \cup { [job |-> j, success |-> FALSE, response_time_ms |-> None,
            timestamp |-> Timestamp] : j \in JobIds }

NoResult == [job |-> "", success |-> FALSE, response_time_ms |-> None, timestamp |-> None]

RECURSIVE Gcd(_, _)
Gcd(a, b) == IF b = 0 THEN a ELSE Gcd(b, a % b)

\* A value of the column average_response_time_ms (REAL affinity): a number,
\* kept exactly as num/den in lowest terms, or a text that is no number and
\* is therefore stored as text (the timestamp it holds).
Real(n, d) == LET g == Gcd(n, d) IN [text |-> None, num |-> n \div g, den |-> d \div g]
Text(ts) == [text |-> ts, num |-> 0, den |-> 1]

\* No schedule_stats row for the schedule id (fetchone() returns None).
NoRow == [total_requests |-> 0, successful_requests |-> 0, failed_requests |-> 0,
          last_failure_time |-> None, average_response_time_ms |-> Real(0, 1),
          present |-> FALSE]

NoTxn == [inserted |-> FALSE, existing |-> NoRow, row |-> NoRow]

\* existing_stats[7] of "SELECT *": the columns are schedule_id,
\* schedule_name, total_requests, successful_requests, failed_requests,
\* last_request_time, last_success_time, last_failure_time,
\* average_response_time_ms, updated_at, so index 7 is last_failure_time.
Column7(existing) == existing.last_failure_time

\* "existing_stats[7] or 0"
Column7Or0(existing) ==
    IF Column7(existing) = None THEN Real(0, 1) ELSE Text(Column7(existing))

\* The average computed for a success on an existing row: current_avg =
\* float(existing_stats[7]) if it is not None else 0, then "new_avg =
\* ((current_avg * existing_stats[3]) + response_time_num) /
\* successful_requests"; float() of a timestamp text raises ValueError, and
\* the handler sets new_avg = existing_stats[7] or 0.
NewAverage(existing, response_time, successful_requests) ==
    IF Column7(existing) = None
    THEN Real(0 * existing.successful_requests + response_time, successful_requests)
    ELSE Column7Or0(existing)

\* _update_schedule_stats: the row written for the result, given the row read.
UpdatedStats(existing, r) ==
    IF existing.present
    THEN LET total == existing.total_requests + 1
             succ == existing.successful_requests + (IF r.success THEN 1 ELSE 0)
             fail == existing.failed_requests + (IF r.success THEN 0 ELSE 1)
         IN [total_requests |-> total, successful_requests |-> succ,
             failed_requests |-> fail,
             last_failure_time |->
                 IF r.success THEN existing.last_failure_time ELSE r.timestamp,
             average_response_time_ms |->
                 IF r.success /\ r.response_time_ms # None
                 THEN NewAverage(existing, r.response_time_ms, succ)
                 ELSE Column7Or0(existing),
             present |-> TRUE]
    ELSE [total_requests |-> 1,
          successful_requests |-> IF r.success THEN 1 ELSE 0,
          failed_requests |-> IF r.success THEN 0 ELSE 1,
          last_failure_time |-> IF r.success THEN None ELSE r.timestamp,
          average_response_time_ms |->
              IF r.success /\ r.response_time_ms # None
              THEN Real(r.response_time_ms, 1) ELSE Real(0, 1),
          present |-> TRUE]

\* "with self.db_lock:" can be entered.
LockFreeAlways(t) == TRUE
LockFree(t) == db_lock = ""

\* The logger's actions leave the other components alone.
LoggerFrame ==
    UNCHANGED <<schedVars, clientVars, detectorVars, senderVars, pureVars, storeVars>>

\* Calls that have returned or are under way.
CallsBegun == l_done + Cardinality({t \in Threads : l_pc[t] # "idle"})

\* log_request_result(request_result, schedule_config) is called on thread t.
LogCall(t, r) ==
    /\ l_pc[t] = "idle"
    /\ CallsBegun < MaxCalls
    /\ l_arg' = [l_arg EXCEPT ![t] = r]
    /\ l_pc' = [l_pc EXCEPT ![t] = "lock"]
    /\ UNCHANGED <<db_history, db_stats, db_lock, l_txn, l_log>>
    /\ UNCHANGED l_done
    /\ LoggerFrame

\* _save_to_database: "with self.db_lock:" is entered and the connection opened.
LockAcquire(t) ==
    /\ l_pc[t] = "lock"
    /\ LockFree(t)
    /\ db_lock' = t
    /\ l_txn' = [l_txn EXCEPT ![t] = NoTxn]
    /\ l_pc' = [l_pc EXCEPT ![t] = "insert"]
    /\ UNCHANGED <<db_history, db_stats, l_arg, l_log>>
    /\ UNCHANGED l_done
    /\ LoggerFrame

\* INSERT INTO request_history, inside the open transaction.
HistoryInsert(t) ==
    /\ l_pc[t] = "insert"
    /\ l_txn' = [l_txn EXCEPT ![t].inserted = TRUE]
    /\ l_pc' = [l_pc EXCEPT ![t] = "select"]
    /\ UNCHANGED <<db_history, db_stats, db_lock, l_arg, l_log>>
    /\ UNCHANGED l_done
    /\ LoggerFrame

\* _update_schedule_stats: SELECT * FROM schedule_stats WHERE schedule_id = ?
StatsSelect(t) ==
    /\ l_pc[t] = "select"
    /\ l_txn' = [l_txn EXCEPT ![t].existing = db_stats[l_arg[t].job]]
    /\ l_pc' = [l_pc EXCEPT ![t] = "update"]
    /\ UNCHANGED <<db_history, db_stats, db_lock, l_arg, l_log>>
    /\ UNCHANGED l_done
    /\ LoggerFrame

\* _update_schedule_stats: UPDATE schedule_stats, or INSERT when no row was read.
StatsWrite(t) ==
    /\ l_pc[t] = "update"
    /\ l_txn' = [l_txn EXCEPT ![t].row = UpdatedStats(l_txn[t].existing, l_arg[t])]
    /\ l_pc' = [l_pc EXCEPT ![t] = "commit"]
    /\ UNCHANGED <<db_history, db_stats, db_lock, l_arg, l_log>>
    /\ UNCHANGED l_done
    /\ LoggerFrame

\* conn.commit(): both writes of the transaction become the stored state.
Commit(t) ==
    /\ l_pc[t] = "commit"
    /\ db_history' = Append(db_history, l_arg[t])
    /\ db_stats' = [db_stats EXCEPT ![l_arg[t].job] = l_txn[t].row]
    /\ l_log' = Append(l_log, l_arg[t])
    /\ l_pc' = [l_pc EXCEPT ![t] = "unlock"]
    /\ UNCHANGED <<db_lock, l_arg, l_txn>>
    /\ UNCHANGED l_done
    /\ LoggerFrame

\* A storage error after which the INSERT already executed stays stored.
StorageErrorKeepsInsert(t) ==
    /\ l_pc[t] \in {"insert", "select", "update", "commit"}
    /\ l_pc' = [l_pc EXCEPT ![t] = "unlock"]
    /\ db_history' = IF l_txn[t].inserted THEN Append(db_history, l_arg[t])
                     ELSE db_history
    /\ UNCHANGED <<db_stats, db_lock, l_arg, l_txn, l_log>>
    /\ UNCHANGED l_done
    /\ LoggerFrame

\* A statement or the commit raises (storage unavailable): the connection's
\* context manager rolls the transaction back, "except Exception" logs it.
StorageError(t) ==
    /\ l_pc[t] \in {"insert", "select", "update", "commit"}
    /\ l_pc' = [l_pc EXCEPT ![t] = "unlock"]
    /\ UNCHANGED <<db_history, db_stats, db_lock, l_arg, l_txn, l_log>>
    /\ UNCHANGED l_done
    /\ LoggerFrame

\* The "with self.db_lock:" block is left and log_request_result returns.
LockReleaseAfterCommit(t) ==
    /\ l_pc[t] = "unlock"
    /\ Len(l_log) > l_done
    /\ db_lock' = IF db_lock = t THEN "" ELSE db_lock
    /\ l_pc' = [l_pc EXCEPT ![t] = "idle"]
    /\ l_arg' = [l_arg EXCEPT ![t] = NoResult]
    /\ l_txn' = [l_txn EXCEPT ![t] = NoTxn]
    /\ UNCHANGED <<db_history, db_stats, l_log>>
    /\ l_done' = l_done + 1
    /\ LoggerFrame
LockRelease(t) ==
    /\ l_pc[t] = "unlock"
    /\ db_lock' = IF db_lock = t THEN "" ELSE db_lock
    /\ l_pc' = [l_pc EXCEPT ![t] = "idle"]
    /\ l_arg' = [l_arg EXCEPT ![t] = NoResult]
    /\ l_txn' = [l_txn EXCEPT ![t] = NoTxn]
    /\ UNCHANGED <<db_history, db_stats, l_log>>
    /\ l_done' = l_done + 1
    /\ LoggerFrame

\* RequestLogger.__init__ on an empty database.
LoggerInit ==
    /\ db_history = <<>>
    /\ db_stats = [j \in JobIds |-> NoRow]
    /\ db_lock = ""
    /\ l_pc = [t \in Threads |-> "idle"]
    /\ l_arg = [t \in Threads |-> NoResult]
    /\ l_txn = [t \in Threads |-> NoTxn]
    /\ l_log = <<>>
    /\ l_done = 0
    /\ q_main = FALSE /\ q_now = 0 /\ q_call = <<>> /\ q_out = <<>>
    /\ SchedInit /\ ClientIdle /\ DetectorIdle /\ SenderIdle /\ PureIdle

LoggerNext ==
    \/ \E t \in Threads, r \in LogResults : LogCall(t, r)
    \/ \E t \in Threads : LockAcquire(t)
    \/ \E t \in Threads : HistoryInsert(t)
    \/ \E t \in Threads : StatsSelect(t)
    \/ \E t \in Threads : StatsWrite(t)
    \/ \E t \in Threads : Commit(t)
    \/ \E t \in Threads : StorageError(t)
    \/ \E t \in Threads : LockRelease(t)

LoggerSpec == LoggerInit /\ [][LoggerNext]_vars

\* The calls for job j whose transaction was committed, in commit order.
Stored(j) == SelectSeq(l_log, LAMBDA e : e.job = j)

RECURSIVE SumTimes(_)
SumTimes(log) ==
    IF log = <<>> THEN 0
    ELSE (IF Head(log).success THEN Head(log).response_time_ms ELSE 0)
         + SumTimes(Tail(log))

Successes(log) == Len(SelectSeq(log, LAMBDA e : e.success))

\* C7: after any sequence of recorded results the stored average is a number
\* which, times the number of recorded successes, equals the sum of the
\* recorded successes' response times (so it is their arithmetic mean; 100,
\* 200, 300 give 100, 150, 200).
C7_RunningAverage ==
    \A j \in JobIds :
        LET avg == db_stats[j].average_response_time_ms
        IN /\ avg.text = None
           /\ avg.num * Successes(Stored(j)) = SumTimes(Stored(j)) * avg.den

\* C8: no statistics update is lost under concurrent calls: a job's row counts
\* every call recorded for it, successes and failures apart.
C8_NoLostUpdate ==
    \A j \in JobIds :
        LET row == db_stats[j]
        IN /\ row.total_requests = Len(Stored(j))
           /\ row.successful_requests + row.failed_requests = row.total_requests
           /\ row.successful_requests = Successes(Stored(j))

\* C8 witness: two results of one job are recorded and counted, a success and
\* a failure; the tray thread, which recorded the second, still holds the lock
\* and the loop thread is waiting for it with a third result of that job.
C8_Witness ==
    /\ Len(Stored("j1")) = 2
    /\ db_stats["j1"].total_requests = 2
    /\ db_stats["j1"].successful_requests = 1
    /\ db_lock = "tray" /\ l_pc["tray"] = "unlock"
    /\ l_pc["loop"] = "lock" /\ l_arg["loop"].job = "j1"

(***************************************************************************)
(* ResponseChangeDetector: process_request_result and update_config.       *)
(***************************************************************************)
Errors == {"e1", "e2"}

\* A response body, as json.loads or response.text() gives it: None, a dict
\* (its items in the order the object lists them), a list, a number or a text.
NoneBody == [kind |-> "none", items |-> <<>>, text |-> ""]
Dict(items) == [kind |-> "dict", items |-> items, text |-> ""]
List(items) == [kind |-> "list", items |-> items, text |-> ""]
Num(text) == [kind |-> "num", items |-> <<>>, text |-> text]
Str(text) == [kind |-> "str", items |-> <<>>, text |-> text]

Bodies ==
    { NoneBody,
      Dict(<< <<"a", Num("1")>>, <<"b", Num("2")>> >>),
      Dict(<< <<"b", Num("2")>>, <<"a", Num("1")>> >>),
      Dict(<< <<"a", Num("1")>>, <<"b", Num("3")>> >>) }

\* The order of the keys as sort_keys=True sorts them.
KeyRank(k) == IF k = "a" THEN 1 ELSE 2

RECURSIVE Insert(_, _)
Insert(item, sorted) ==
    IF sorted = <<>> THEN <<item>>
    ELSE IF KeyRank(item[1]) <= KeyRank(Head(sorted)[1])
         THEN <<item>> \o sorted
         ELSE <<Head(sorted)>> \o Insert(item, Tail(sorted))

RECURSIVE SortKeys(_)
SortKeys(items) ==
    IF items = <<>> THEN <<>> ELSE Insert(Head(items), SortKeys(Tail(items)))

RECURSIVE Json(_)
RECURSIVE JoinItems(_)
RECURSIVE JoinValues(_)

\* The items of a dict as json.dumps writes them: "key": value, ...
JoinItems(items) ==
    IF items = <<>> THEN ""
    ELSE "\"" \o Head(items)[1] \o "\": " \o Json(Head(items)[2])
         \o (IF Tail(items) = <<>> THEN "" ELSE ", " \o JoinItems(Tail(items)))

\* The elements of a list as json.dumps writes them.
JoinValues(values) ==
    IF values = <<>> THEN ""
    ELSE Json(Head(values))
         \o (IF Tail(values) = <<>> THEN "" ELSE ", " \o JoinValues(Tail(values)))

\* json.dumps(value, sort_keys=True, ensure_ascii=False): the keys of every
\* dict, nested ones included, in sorted order.
Json(v) ==
    IF v.kind = "none" THEN "null"
    ELSE IF v.kind = "num" THEN v.text
    ELSE IF v.kind = "str" THEN "\"" \o v.text \o "\""
    ELSE IF v.kind = "dict" THEN "{" \o JoinItems(SortKeys(v.items)) \o "}"
    ELSE "[" \o JoinValues(v.items) \o "]"

\* json.dumps(response_body, sort_keys=True, ensure_ascii=False)
Dumps(items) == Json(Dict(items))

RECURSIVE Repr(_)
RECURSIVE ReprItems(_)
RECURSIVE ReprValues(_)

\* The items of a dict as repr() writes them: in insertion order.
ReprItems(items) ==
    IF items = <<>> THEN ""
    ELSE "'" \o Head(items)[1] \o "': " \o Repr(Head(items)[2])
         \o (IF Tail(items) = <<>> THEN "" ELSE ", " \o ReprItems(Tail(items)))

ReprValues(values) ==
    IF values = <<>> THEN ""
    ELSE Repr(Head(values))
         \o (IF Tail(values) = <<>> THEN "" ELSE ", " \o ReprValues(Tail(values)))

\* repr(value), which str() of a list applies to its elements.
Repr(v) ==
    IF v.kind = "none" THEN "None"
    ELSE IF v.kind = "num" THEN v.text
    ELSE IF v.kind = "str" THEN "'" \o v.text \o "'"
    ELSE IF v.kind = "dict" THEN "{" \o ReprItems(v.items) \o "}"
    ELSE "[" \o ReprValues(v.items) \o "]"

\* str(response_body) of a body that is no dict.
StrOf(v) == IF v.kind = "str" THEN v.text ELSE Repr(v)

\* hashlib.sha256(content).hexdigest(): one digest per content.
Sha256(content) == <<"sha256", content>>

\* _calculate_response_hash
CalculateResponseHash(body) ==
    IF body.kind = "none" THEN Sha256("")
    ELSE IF body.kind = "dict" THEN Sha256(Dumps(body.items))
    ELSE Sha256(StrOf(body))

\* self.response_hashes.get(request_id) is None
NoHash == <<>>

\* udp_config; notify_on_success may be absent, and is read with the default
\* True in one place and the default False in another.
Flags == {"absent", "true", "false"}
Get(flag, default) == IF flag = "absent" THEN default ELSE flag = "true"

DefaultConfig ==
    [enabled |-> TRUE, notify_on_success |-> "absent", notify_on_failure |-> TRUE,
     notify_on_response_change |-> TRUE, delay_seconds |-> None]

UdpConfigs ==
    { DefaultConfig,
      [DefaultConfig EXCEPT !.notify_on_success = "true"],
      [DefaultConfig EXCEPT !.notify_on_success = "false"],
      [DefaultConfig EXCEPT !.notify_on_success = "true",
                            !.notify_on_response_change = FALSE],
      [DefaultConfig EXCEPT !.notify_on_failure = FALSE],
      [DefaultConfig EXCEPT !.enabled = FALSE] }

\* The request results handed to process_request_result.
DetectorResults ==
    { [request_id |-> j, success |-> TRUE, response_body |-> b, error |-> ""] :
          j \in JobIds, b \in Bodies }
    \cup { [request_id |-> j, success |-> FALSE, response_body |-> NoneBody, error |-> e] :
          j \in JobIds, e \in Errors }

\* error_key = f"{request_id}_{error}"
ErrorKey(request_id, error) == request_id \o "_" \o error

\* "self.response_hashes[request_id] = current_hash"
StoreHashOnce(hashes, request_id, current_hash) ==
    IF hashes[request_id] = NoHash
    THEN [hashes EXCEPT ![request_id] = current_hash] ELSE hashes
StoreHash(hashes, request_id, current_hash) ==
    [hashes EXCEPT ![request_id] = current_hash]

\* _handle_success_response: the notification types sent.
SuccessNotifications(is_first_run, is_response_changed) ==
    IF is_first_run /\ Get(udp_config.notify_on_success, TRUE)
    THEN <<"first_success">>
    ELSE IF is_response_changed /\ udp_config.notify_on_response_change
    THEN <<"response_changed">>
    ELSE IF ~is_response_changed /\ Get(udp_config.notify_on_success, FALSE)
    THEN <<"success_no_change">>
    ELSE <<>>

\* What had happened to a job before a call: whether a success of it was
\* processed, the hash of the last such success's body, and the errors of the
\* failures notified since.
NoPast == [seen |-> FALSE, hash |-> NoHash, notified |-> {}]

NoCall == [result |-> [request_id |-> "", success |-> FALSE,
                       response_body |-> NoneBody, error |-> ""],
           processed |-> FALSE, is_first_run |-> FALSE,
           is_response_changed |-> FALSE]

DetectorFrame == UNCHANGED <<schedVars, clientVars, loggerVars, senderVars, pureVars>>

\* process_request_result with notifications disabled: returns at once.
ProcessDisabled(r) ==
    /\ ~udp_config.enabled
    /\ emitted' = <<>>
    /\ d_last' = [NoCall EXCEPT !.result = r]
    /\ UNCHANGED <<udp_config, response_hashes, notified_errors, d_prev>>
    /\ DetectorFrame

\* process_request_result for a success: _handle_success_response, then the
\* recovery test "request_id in self.notified_errors".
ProcessSuccess(r) ==
    LET request_id == r.request_id
        current_hash == CalculateResponseHash(r.response_body)
        previous_hash == response_hashes[request_id]
        is_first_run == previous_hash = NoHash
        is_response_changed == previous_hash # NoHash /\ previous_hash # current_hash
        recovered == request_id \in notified_errors
    IN /\ udp_config.enabled
       /\ r.success
       /\ response_hashes' = StoreHash(response_hashes, request_id, current_hash)
       /\ notified_errors' = IF recovered THEN notified_errors \ {request_id}
                             ELSE notified_errors
       /\ emitted' = SuccessNotifications(is_first_run, is_response_changed)
                     \o (IF recovered THEN <<"recovery">> ELSE <<>>)
       /\ d_last' = [result |-> r, processed |-> TRUE, is_first_run |-> is_first_run,
                     is_response_changed |-> is_response_changed]
       /\ d_prev' = [d_prev EXCEPT ![request_id] =
                        [seen |-> TRUE, hash |-> current_hash, notified |-> {}]]
       /\ UNCHANGED udp_config
       /\ DetectorFrame

\* "if error_key in self.notified_errors"
KeyOpenNever(error_key) == FALSE
KeyOpen(error_key) == error_key \in notified_errors

\* process_request_result for a failure: _handle_failure_response.
ProcessFailure(r) ==
    LET request_id == r.request_id
        error_key == ErrorKey(request_id, r.error)
        notify == udp_config.notify_on_failure /\ ~KeyOpen(error_key)
    IN /\ udp_config.enabled
       /\ ~r.success
       /\ notified_errors' = IF notify THEN notified_errors \cup {error_key}
                             ELSE notified_errors
       /\ emitted' = IF notify THEN <<"failure">> ELSE <<>>
       /\ d_last' = [NoCall EXCEPT !.result = r, !.processed = TRUE]
       /\ d_prev' = IF notify
                    THEN [d_prev EXCEPT ![request_id].notified = @ \cup {r.error}]
                    ELSE d_prev
       /\ UNCHANGED <<udp_config, response_hashes>>
       /\ DetectorFrame

\* The configurations update_config is given: those above, and one that
\* sets delay_seconds.
NewUdpConfigs == UdpConfigs \cup {[DefaultConfig EXCEPT !.delay_seconds = 2]}

\* "delay_seconds = udp_config.get('delay_seconds', 1)"
DelaySeconds(config) == IF config.delay_seconds = None THEN 1 ELSE config.delay_seconds

\* update_config(new_udp_config)
UpdateConfigAnew(new_udp_config) ==
    /\ new_udp_config # udp_config
    /\ udp_config' = new_udp_config
    /\ s_delay' = DelaySeconds(new_udp_config)
    /\ response_hashes' = [j \in JobIds |-> NoHash]
    /\ notified_errors' = {}
    /\ UNCHANGED <<emitted, d_last, d_prev>>
    /\ UNCHANGED <<s_now, s_timer, s_timers, s_sent, s_pc, s_msg>>
    /\ UNCHANGED <<schedVars, clientVars, loggerVars, pureVars>>
UpdateConfig(new_udp_config) ==
    /\ new_udp_config # udp_config
    /\ udp_config' = new_udp_config
    /\ s_delay' = DelaySeconds(new_udp_config)
    /\ UNCHANGED <<response_hashes, notified_errors, emitted, d_last, d_prev>>
    /\ UNCHANGED <<s_now, s_timer, s_timers, s_sent, s_pc, s_msg>>
    /\ UNCHANGED <<schedVars, clientVars, loggerVars, pureVars>>

\* ResponseChangeDetector.__init__(udp_config)
DetectorInit ==
    /\ udp_config \in UdpConfigs
    /\ response_hashes = [j \in JobIds |-> NoHash]
    /\ notified_errors = {}
    /\ emitted = <<>>
    /\ d_last = NoCall
    /\ d_prev = [j \in JobIds |-> NoPast]
    /\ s_delay = DelaySeconds(udp_config)
    /\ s_now = 0 /\ s_timer = 0 /\ s_timers = <<>>
    /\ s_sent = <<>> /\ s_pc = <<>> /\ s_msg = <<>>
    /\ SchedInit /\ ClientIdle /\ LoggerIdle /\ PureIdle

DetectorNext ==
    \/ \E r \in DetectorResults : ProcessDisabled(r)
    \/ \E r \in DetectorResults : ProcessSuccess(r)
    \/ \E r \in DetectorResults : ProcessFailure(r)
    \/ \E c \in NewUdpConfigs : UpdateConfig(c)

DetectorSpec == DetectorInit /\ [][DetectorNext]_vars

SuccessTypes == {"first_success", "response_changed", "success_no_change"}

\* The classification the specification gives a success r of a job with the
\* given past: first_success when no success of the job was processed before,
\* unchanged (the notification type success_no_change) when the body's hash
\* equals that of the job's previous success, response_changed when it differs.
Expected(past, r) ==
    IF ~past.seen THEN "first_success"
    ELSE IF past.hash = CalculateResponseHash(r.response_body)
         THEN "success_no_change"
         ELSE "response_changed"

\* C9: every processed success is classified first_success when it is the
\* job's first, unchanged when its body hash equals the hash of the job's
\* previous success and response_changed when it differs; two consecutive
\* successes with identical bodies are first_success then unchanged.
C9_Classification ==
    [][LET r == d_last'.result IN
          (r.success /\ ProcessSuccess(r)) =>
              LET expected == Expected(d_prev[r.request_id], r)
              IN /\ d_last'.is_first_run = (expected = "first_success")
                 /\ d_last'.is_response_changed = (expected = "response_changed")
                 /\ \A i \in DOMAIN emitted' :
                        emitted'[i] \in SuccessTypes => emitted'[i] = expected]_vars

\* C9 witness: after a success with the fields a, b, a success of the same job
\* whose dict lists them as b, a has been classified unchanged and notified as
\* such.
C9_Witness ==
    /\ d_last.processed /\ d_last.result.success
    /\ d_last.result.response_body = Dict(<< <<"b", Num("2")>>, <<"a", Num("1")>> >>)
    /\ d_prev[d_last.result.request_id].hash = Sha256("{\"a\": 1, \"b\": 2}")
    /\ ~d_last.is_first_run /\ ~d_last.is_response_changed
    /\ emitted = <<"success_no_change">>

\* C10: when a failure of a job was notified and the job's next processed
\* result is a success, exactly one recovery notification is emitted and no
\* failure key of the job remains open.
C10_RecoveryOnce ==
    [][LET r == d_last'.result IN
          (r.success /\ d_prev[r.request_id].notified # {} /\ ProcessSuccess(r)) =>
              /\ Len(SelectSeq(emitted', LAMBDA n : n = "recovery")) = 1
              /\ \A e \in Errors :
                     ErrorKey(r.request_id, e) \notin notified_errors']_vars

\* C11 as claimed: a failure whose (job id, error message) key is open
\* produces no notification and leaves the open keys unchanged; a failure
\* whose key is not open produces exactly one failure notification and opens
\* the key.
C11_FailureDedupe ==
    [][LET r == d_last'.result
           key == ErrorKey(r.request_id, r.error)
       IN ((ProcessFailure(r) \/ ProcessDisabled(r)) /\ ~r.success) =>
              IF key \in notified_errors
              THEN emitted' = <<>> /\ notified_errors' = notified_errors
              ELSE /\ emitted' = <<"failure">>
                   /\ notified_errors' = notified_errors \cup {key}]_vars

\* C11 amended: the same, for a detector whose configuration has enabled and
\* notify_on_failure true; under any other configuration a failure produces
\* no notification and leaves the open keys unchanged.
C11_FailureDedupeWhenNotifying ==
    [][LET r == d_last'.result
           key == ErrorKey(r.request_id, r.error)
       IN ((ProcessFailure(r) \/ ProcessDisabled(r)) /\ ~r.success) =>
              IF key \in notified_errors
                 \/ ~(udp_config.enabled /\ udp_config.notify_on_failure)
              THEN emitted' = <<>> /\ notified_errors' = notified_errors
              ELSE /\ emitted' = <<"failure">>
                   /\ notified_errors' = notified_errors \cup {key}]_vars

\* C11 witness: the last result processed is a failure whose error had been
\* notified for the job before, and nothing was sent for it.
C11_Witness ==
    /\ d_last.processed /\ ~d_last.result.success
    /\ d_last.result.request_id = "j1" /\ d_last.result.error = "e1"
    /\ "e1" \in d_prev["j1"].notified
    /\ "j1_e1" \in notified_errors
    /\ "j1_e2" \in notified_errors
    /\ emitted = <<>>

(***************************************************************************)
(* DelayedUDPSender (modules/communication/udp_client.py): send_message as *)
(* _send_udp_notification calls it, and the threading.Timer it arms.       *)
(***************************************************************************)
MaxSends == 3
MaxClock == 4

\* delay_seconds of the configuration.
Delays == {1, 2}

NoMessage == [n |-> 0, thread |-> "", at |-> 0]

\* The ordinal of the next notification event.
NextN ==
    1 + Len(s_timers) + Cardinality({t \in Threads : s_pc[t] # "idle"})

\* "self.timer.cancel()": Timer.cancel() sets the finished event, which stops
\* a timer still waiting and does nothing to one that has fired.
CancelNothing(timers, k) == timers
Cancel(timers, k) ==
    IF k # 0 /\ timers[k].state = "armed"
    THEN [timers EXCEPT ![k].state = "cancelled"]
    ELSE timers

SenderFrame == UNCHANGED <<schedVars, clientVars, loggerVars, detectorVars, pureVars>>

\* send_message on thread t, up to "self.timer.cancel()".
SendMessageCancel(t) ==
    /\ s_pc[t] = "idle"
    /\ NextN <= MaxSends
    /\ s_timers' = Cancel(s_timers, s_timer)
    /\ s_msg' = [s_msg EXCEPT ![t] = [n |-> NextN, thread |-> t, at |-> s_now]]
    /\ s_pc' = [s_pc EXCEPT ![t] = "arm"]
    /\ UNCHANGED <<s_now, s_delay, s_timer, s_sent>>
    /\ SenderFrame

\* send_message on thread t: "self.timer = Timer(self.delay, send, [...])" and
\* "self.timer.start()".
SendMessageArm(t) ==
    /\ s_pc[t] = "arm"
    /\ s_timers' = Append(s_timers, [message |-> s_msg[t], due |-> s_now + s_delay,
                                     state |-> "armed"])
    /\ s_timer' = Len(s_timers) + 1
    /\ s_msg' = [s_msg EXCEPT ![t] = NoMessage]
    /\ s_pc' = [s_pc EXCEPT ![t] = "idle"]
    /\ UNCHANGED <<s_now, s_delay, s_sent>>
    /\ SenderFrame

\* A timer that transmits the payload of the first call instead of its own.
TimerFiresStale(k) ==
    /\ s_timers[k].state = "armed"
    /\ s_now >= s_timers[k].due
    /\ s_sent' = Append(s_sent, s_timers[1].message)
    /\ s_timers' = [s_timers EXCEPT ![k].state = "fired"]
    /\ UNCHANGED <<s_now, s_delay, s_timer, s_pc, s_msg>>
    /\ SenderFrame

\* Timer.run: the wait of self.delay seconds is over, the timer was not
\* cancelled, and send(message, port, ip) transmits the datagram.
TimerFires(k) ==
    /\ s_timers[k].state = "armed"
    /\ s_now >= s_timers[k].due
    /\ s_sent' = Append(s_sent, s_timers[k].message)
    /\ s_timers' = [s_timers EXCEPT ![k].state = "fired"]
    /\ UNCHANGED <<s_now, s_delay, s_timer, s_pc, s_msg>>
    /\ SenderFrame

\* The clock moves on; a timer whose wait is over fires before it does.
AdvanceClock ==
    /\ s_now < MaxClock
    /\ \A k \in DOMAIN s_timers : s_timers[k].state = "armed" => s_timers[k].due > s_now
    /\ s_now' = s_now + 1
    /\ UNCHANGED <<s_delay, s_timer, s_timers, s_sent, s_pc, s_msg>>
    /\ SenderFrame

\* DelayedUDPSender.__init__(delay)
SenderInit ==
    /\ s_now = 0
    /\ s_delay \in Delays
    /\ s_timer = 0
    /\ s_timers = <<>>
    /\ s_sent = <<>>
    /\ s_pc = [t \in Threads |-> "idle"]
    /\ s_msg = [t \in Threads |-> NoMessage]
    /\ SchedInit /\ ClientIdle /\ LoggerIdle /\ DetectorIdle /\ PureIdle

SenderNext ==
    \/ \E t \in Threads : SendMessageCancel(t)
    \/ \E t \in Threads : SendMessageArm(t)
    \/ \E k \in DOMAIN s_timers : TimerFires(k)
    \/ AdvanceClock

SenderSpec == SenderInit /\ [][SenderNext]_vars

\* Every notification event so far reached the sender from the event-loop
\* thread, where the job executions run.
LoopOnly ==
    /\ \A k \in DOMAIN s_timers : s_timers[k].message.thread = "loop"
    /\ s_pc["tray"] = "idle"

Transmissions(m) == Len(SelectSeq(s_sent, LAMBDA x : x = m))

\* C12: of two notification events of the job executions that reach the
\* sender within the debounce delay of each other (the later one before the
\* earlier one's timer is due), the earlier payload is never transmitted; a
\* payload is transmitted at most once, only the newest timer is armed, and it
\* fires when its delay is over: exactly one message, the later one's.
C12_Debounce ==
    LoopOnly =>
        /\ \A i, j \in DOMAIN s_timers :
               (i < j /\ s_timers[j].message.at < s_timers[i].due) =>
                   /\ s_timers[i].state = "cancelled"
                   /\ Transmissions(s_timers[i].message) = 0
        /\ \A i \in DOMAIN s_timers :
               /\ Transmissions(s_timers[i].message)
                      = (IF s_timers[i].state = "fired" THEN 1 ELSE 0)
               /\ s_timers[i].state = "armed" =>
                      (i = Len(s_timers) /\ s_now <= s_timers[i].due)

\* C12 witness: two events reached the sender within the delay of each other,
\* the first timer was cancelled and only the second payload was transmitted.
C12_Witness ==
    /\ LoopOnly
    /\ Len(s_timers) = 2
    /\ s_timers[2].message.at < s_timers[1].due
    /\ s_timers[2].message.at > s_timers[1].message.at
    /\ s_timers[1].state = "cancelled"
    /\ s_timers[2].state = "fired"
    /\ s_sent = <<s_timers[2].message>>

(***************************************************************************)
(* _send_udp_notification: the response body in the notification message.  *)
(***************************************************************************)
MaxBodySize == 5

NotificationTypes ==
    {"first_success", "response_changed", "success_no_change", "failure", "recovery"}

\* A response body, by what the code asks of it: whether it is truthy
\* ("if response_body:") and the length in bytes of its serialization
\* (json.dumps for a dict, str() otherwise).  The falsy bodies are "" (0
\* bytes), 0 (1 byte), and {} or [] (2 bytes).
PayloadBodies ==
    { [truthy |-> FALSE, size |-> n] : n \in 0..2 }
    \cup { [truthy |-> TRUE, size |-> n] : n \in 1..MaxBodySize }

\* max_response_size_bytes of the configuration.
MaxResponseSizes == 2..(MaxBodySize - 1)

PayloadInputs ==
    [notification_type : NotificationTypes, response_body : PayloadBodies,
     max_response_size : MaxResponseSizes]

\* "if len(response_str.encode('utf-8')) <= max_response_size"
Fits(size, max_response_size) == size <= max_response_size

NoPayload == [built |-> FALSE, response_body |-> FALSE,
              response_body_truncated |-> FALSE, response_size_bytes |-> None]

\* The body-related keys of notification_message.
Payload(in) ==
    LET success == in.notification_type # "failure"
        body == in.response_body
    IN IF success /\ in.notification_type \in {"first_success", "response_changed"}
          /\ body.truthy
       THEN IF Fits(body.size, in.max_response_size)
            THEN [NoPayload EXCEPT !.built = TRUE, !.response_body = TRUE]
            ELSE [NoPayload EXCEPT !.built = TRUE, !.response_body_truncated = TRUE,
                                   !.response_size_bytes = body.size]
       ELSE [NoPayload EXCEPT !.built = TRUE]

PayloadFrame ==
    UNCHANGED <<schedVars, clientVars, loggerVars, detectorVars, senderVars, h_in, h_out>>

\* _send_udp_notification builds the message for its arguments.
BuildPayload ==
    /\ ~p_out.built
    /\ p_out' = Payload(p_in)
    /\ UNCHANGED p_in
    /\ PayloadFrame

PayloadInit ==
    /\ p_in \in PayloadInputs
    /\ p_out = NoPayload
    /\ h_in = <<>> /\ h_out = <<>>
    /\ SchedInit /\ ClientIdle /\ LoggerIdle /\ DetectorIdle /\ SenderIdle

PayloadNext == BuildPayload

PayloadSpec == PayloadInit /\ [][PayloadNext]_vars

BodyTypes == {"first_success", "response_changed"}

\* C13: for a first_success or response_changed notification the
\* body is embedded if and only if its serialized size is at most
\* max_response_size_bytes; otherwise the payload carries the truncation
\* marker and the true size, and not the body.
C13_EmbedIffFits ==
    (p_out.built /\ p_in.notification_type \in BodyTypes) =>
        IF p_in.response_body.size <= p_in.max_response_size
        THEN p_out.response_body /\ ~p_out.response_body_truncated
        ELSE /\ ~p_out.response_body
             /\ p_out.response_body_truncated
             /\ p_out.response_size_bytes = p_in.response_body.size

(***************************************************************************)
(* _calculate_response_hash on pairs of response bodies.                   *)
(***************************************************************************)

\* Objects over the fields a and b, each in both orders of its fields.
FlatDicts ==
    { Dict(<< <<"a", Num("1")>>, <<"b", Num(v)>> >>) : v \in {"2", "3"} }
    \cup { Dict(<< <<"b", Num(v)>>, <<"a", Num("1")>> >>) : v \in {"2", "3"} }

\* Response bodies: no body, text, flat objects, objects holding an object or
\* an array of objects, and arrays of objects.
HashBodies ==
    {NoneBody, Str("ok")}
    \cup FlatDicts
    \cup { Dict(<< <<"a", d>>, <<"b", Num("1")>> >>) : d \in FlatDicts }
    \cup { Dict(<< <<"b", Num("1")>>, <<"a", d>> >>) : d \in FlatDicts }
    \cup { Dict(<< <<"a", List(<<d>>)>> >>) : d \in FlatDicts }
    \cup { List(<<d>>) : d \in FlatDicts }

RECURSIVE StructEq(_, _)
\* x and y are structurally equal: the same value up to the order in which
\* their objects list their fields.
StructEq(x, y) ==
    /\ x.kind = y.kind
    /\ x.text = y.text
    /\ Len(x.items) = Len(y.items)
    /\ IF x.kind = "dict"
       THEN \A i \in DOMAIN x.items : \E j \in DOMAIN y.items :
                /\ x.items[i][1] = y.items[j][1]
                /\ StructEq(x.items[i][2], y.items[j][2])
       ELSE \A i \in DOMAIN x.items : StructEq(x.items[i], y.items[i])

NoHashes == <<NoHash, NoHash>>

HashFrame ==
    UNCHANGED <<schedVars, clientVars, loggerVars, detectorVars, senderVars, p_in, p_out>>

\* _handle_success_response computes the hash of two successive bodies.
ComputeHashes ==
    /\ h_out = NoHashes
    /\ h_out' = <<CalculateResponseHash(h_in[1]), CalculateResponseHash(h_in[2])>>
    /\ UNCHANGED h_in
    /\ HashFrame

HashInit ==
    /\ h_in \in HashBodies \X HashBodies
    /\ h_out = NoHashes
    /\ p_in = <<>> /\ p_out = <<>>
    /\ SchedInit /\ ClientIdle /\ LoggerIdle /\ DetectorIdle /\ SenderIdle

HashNext == ComputeHashes

HashSpec == HashInit /\ [][HashNext]_vars

\* C14: two response bodies that are structurally equal and differ only in
\* the order in which their objects (at the top level, or nested in objects
\* or arrays) list their fields have the same hash.
C14_OrderIndependent ==
    (h_out # NoHashes /\ StructEq(h_in[1], h_in[2])) => h_out[1] = h_out[2]

(***************************************************************************)
(* Scheduler claims: registration                                          *)
(***************************************************************************)

\* add_schedule returns False for the configuration: no next run time can be
\* computed for it.
Rejected(cfg) == cfg.enabled /\ CalculateNextRunTime(cfg, now) = None

\* C15: when add_schedule/update_schedule fails, the registered jobs, their
\* runtime state and the executions in flight are as before the call, also
\* when a job with the same id was registered.
C15_FailureLeavesState ==
    [][\A cfg \in SchedConfigs :
          (Rejected(cfg) /\ AddSchedule(cfg)) => (jobs' = jobs /\ objs' = objs)]_vars

(***************************************************************************)
(* Registration of arbitrary configurations: add_schedule, remove_schedule *)
(* and the clock, with no scheduler loop running.                          *)
(***************************************************************************)
Urls == {Absent, "http://a", "ftp://a"}
Methods == {Absent, "get", "TRACE"}

\* The configuration dicts handed to add_schedule: the id may be missing, the
\* url, the method and the schedule_type may be missing or unsupported, the
\* interval may be 0 and the cron expression unparsable (cron_period 0).
RegistryConfigs ==
    { [id |-> i, enabled |-> TRUE, schedule_type |-> t, interval_seconds |-> n,
       cron_period |-> 0, url |-> u, method |-> m] :
         i \in {"", "j1", "j2"}, t \in {Absent, "interval", "daily"},
         n \in {0, 1}, u \in Urls, m \in Methods }
    \cup
    { [id |-> i, enabled |-> TRUE, schedule_type |-> "cron", interval_seconds |-> 0,
       cron_period |-> c, url |-> u, method |-> m] :
         i \in {"", "j1", "j2"}, c \in {0, 2}, u \in Urls, m \in Methods }

\* str.startswith
StartsWith(s, prefix) ==
    Len(s) >= Len(prefix) /\ SubSeq(s, 1, Len(prefix)) = prefix

LowerCase == <<"a", "b", "c", "d", "e", "f", "g", "h", "i", "j", "k", "l", "m",
               "n", "o", "p", "q", "r", "s", "t", "u", "v", "w", "x", "y", "z">>
UpperCase == <<"A", "B", "C", "D", "E", "F", "G", "H", "I", "J", "K", "L", "M",
               "N", "O", "P", "Q", "R", "S", "T", "U", "V", "W", "X", "Y", "Z">>

UpperChar(c) ==
    IF \E k \in 1..26 : LowerCase[k] = c
    THEN UpperCase[CHOOSE k \in 1..26 : LowerCase[k] = c]
    ELSE c

\* str.upper
RECURSIVE Upper(_)
Upper(s) ==
    IF s = "" THEN "" ELSE UpperChar(SubSeq(s, 1, 1)) \o Upper(SubSeq(s, 2, Len(s)))

HttpMethods == {"GET", "POST", "PUT", "DELETE", "PATCH", "HEAD", "OPTIONS"}

\* RequestScheduler.validate_schedule_config
ValidateScheduleConfig(cfg) ==
    /\ \A field \in {cfg.id, cfg.url, cfg.method, cfg.schedule_type} : field # Absent
    /\ cfg.id # ""
    /\ \/ cfg.schedule_type = "interval" /\ cfg.interval_seconds > 0
       \/ cfg.schedule_type = "cron" /\ cfg.cron_period > 0

\* WebRequestClient.validate_schedule_config
ClientValidateScheduleConfig(cfg) ==
    /\ \A field \in {cfg.id, cfg.url, cfg.method} : field \notin {Absent, ""}
    /\ StartsWith(cfg.url, "http://") \/ StartsWith(cfg.url, "https://")
    /\ Upper(cfg.method) \in HttpMethods

RegistryNext ==
    \/ \E cfg \in RegistryConfigs : AddSchedule(cfg)
    \/ \E j \in JobIds : RemoveSchedule(j)
    \/ AdvanceTime

RegistrySpec == Init /\ [][RegistryNext]_vars

\* C16: every registered job has a valid configuration: all required fields,
\* an http(s) URL, a supported method, a positive interval or a parsable cron
\* expression.
C16_OnlyValidRegistered ==
    \A j \in Registered :
        /\ ValidateScheduleConfig(objs[jobs[j]].cfg)
        /\ ClientValidateScheduleConfig(objs[jobs[j]].cfg)

(***************************************************************************)
(* The scheduler driven also with configurations whose enabled is false.   *)
(***************************************************************************)
DisableNext ==
    \/ \E cfg \in DisabledConfigs : AddSchedule(cfg)
    \/ SchedNext

DisableSpec == Init /\ [][DisableNext]_vars

\* C17: a job whose latest add_schedule/update_schedule call had enabled false
\* (and returned success) is not scheduled: no tick starts an execution of it,
\* also when an enabled job with that id was registered before the call.
C17_DisabledNotStarted ==
    [][Tick => \A j \in disabled : objs'[SlotOf(j)].task # "created"]_vars

\* C18: when add_schedule/update_schedule replaces a registered job that has
\* an execution in flight, the old instance's execution is kept as it was (no
\* cancellation is requested of it) and the new instance is registered.
C18_ReplaceKeepsExecution ==
    [][\A cfg \in SchedConfigs :
          LET s == jobs[cfg.id]
          IN (/\ s # 0
              /\ objs[s].task = "running"
              /\ ~Rejected(cfg)
              /\ AddSchedule(cfg))
             => /\ jobs'[cfg.id] # 0
                /\ \E t \in OrphanSlots : objs'[t] = Orphan(objs[s])]_vars

\* C19: remove_schedule of a registered id requests the cancellation of the
\* job's live task, deletes the job and leaves the other jobs registered; of
\* an unknown id it changes nothing.  No tick creates a task for an id that is
\* not registered.
C19_RemoveSchedule ==
    [][/\ \A j \in JobIds :
            RemoveSchedule(j) =>
                IF jobs[j] # 0
                THEN /\ jobs'[j] = 0
                     /\ \A i \in JobIds \ {j} : jobs'[i] = jobs[i]
                     /\ TaskLive(objs[jobs[j]]) =>
                            \E t \in OrphanSlots : /\ objs'[t].id = j
                                                   /\ objs'[t].task = objs[jobs[j]].task
                                                   /\ objs'[t].cancel_req
                ELSE jobs' = jobs /\ objs' = objs
       /\ Tick => \A j \in JobIds :
                     jobs[j] = 0 =>
                        \A s \in Slots : objs'[s].id = j => objs'[s].task # "created"]_vars

\* A job removed while its execution was in flight: the execution is still
\* running, with its cancellation requested, and the id is not registered.
C19_Witness ==
    \E t \in OrphanSlots : /\ objs[t].task = "running"
                           /\ objs[t].cancel_req
                           /\ jobs[objs[t].id] = 0

\* C20: whatever start() and stop() calls were made, also a start() while a
\* stop() awaits the cancelled loop, at most one _scheduler_loop is left to
\* tick; start() on a running scheduler and stop() on a stopped one change
\* nothing.
C20_StartStopIdempotent ==
    /\ [](loop_alive <= 1)
    /\ [][/\ (is_running /\ Start) => UNCHANGED vars
          /\ (~is_running /\ StopBegin) => UNCHANGED vars]_vars

\* start() was called while stop() awaits the loop it cancelled: the new loop
\* is live and the old one has not yet observed its cancellation.
C20_Witness ==
    /\ stop_pc = "await_loop"
    /\ loop_cancelling
    /\ is_running
    /\ loop_alive = 1

(***************************************************************************)
(* Scheduler claims: stop()                                                *)
(***************************************************************************)

\* stop() returns: its iteration over self.jobs.values() is exhausted.
StopReturns ==
    /\ stop_pc = "cancel_jobs"
    /\ stop_wait = 0
    /\ Cardinality(Registered) = stop_size
    /\ Registered \ stop_visited = {}
    /\ StopVisit

\* C21: when stop() returns (no start() having been called meanwhile), no
\* execution unit is still running: neither of a registered job nor of a job
\* removed or replaced while in flight.
C21_StopLeavesNothingRunning ==
    [][(StopReturns /\ ~is_running) => \A s \in Slots : objs'[s].task # "running"]_vars

(***************************************************************************)
(* RequestLogger.cleanup_old_logs, over stores of any content.             *)
(***************************************************************************)
MaxRows == 3
MaxStamp == 2

\* Instants, in half days; timestamps are the ISO texts of instants.
Stamps == 0..MaxStamp
DayLen == 2
DaysToKeep == {0, 1}

\* The request_history rows a store may hold.
StoredResults ==
    { [job |-> j, success |-> TRUE, response_time_ms |-> 100, timestamp |-> t] :
          j \in JobIds, t \in Stamps }

RECURSIVE SeqsUpTo(_, _)
SeqsUpTo(S, n) ==
    IF n = 0 THEN {<<>>}
    ELSE LET shorter == SeqsUpTo(S, n - 1)
         IN shorter \cup {Append(h, x) : h \in {g \in shorter : Len(g) = n - 1}, x \in S}

\* A schedule_stats row, as one recorded success leaves it.
SomeRow ==
    UpdatedStats(NoRow, [job |-> "j1", success |-> TRUE, response_time_ms |-> 100,
                         timestamp |-> 0])

\* datetime.now(timezone.utc).replace(hour=0, minute=0, second=0, microsecond=0)
\*     - timedelta(days=days_to_keep)
CutoffDate(current, days_to_keep) ==
    (current \div DayLen) * DayLen - days_to_keep * DayLen

\* "timestamp < ?" compares texts.  The stored timestamp is the naive
\* datetime.now().isoformat() of the client, the parameter is
\* cutoff_date.isoformat() of an aware datetime and ends in "+00:00": the
\* text of the cutoff's own instant is a proper prefix of the parameter and
\* therefore less than it.
TimestampLess(timestamp, cutoff_date) == timestamp <= cutoff_date

\* DELETE FROM request_history WHERE timestamp < ?
DeleteOlder(history, cutoff_date) ==
    SelectSeq(history, LAMBDA r : ~TimestampLess(r.timestamp, cutoff_date))

\* The same statement followed by a DELETE FROM schedule_stats.
StatsAfterCleanupEmptied(stats) == [j \in JobIds |-> NoRow]
StatsAfterCleanup(stats) == stats

NoCleanup == [op |-> "none", days_to_keep |-> 0, deleted |-> 0]

\* cleanup_old_logs(days_to_keep).  The name timedelta is bound only by the
\* import under "if __name__ == '__main__'": otherwise evaluating the cutoff
\* raises NameError, which "except Exception" logs, and nothing is deleted.
CleanupOldLogs(days_to_keep) ==
    /\ db_lock = ""
    /\ IF q_main
       THEN LET kept == DeleteOlder(db_history, CutoffDate(q_now, days_to_keep))
            IN /\ db_history' = kept
               /\ db_stats' = StatsAfterCleanup(db_stats)
               /\ q_call' = [op |-> "cleanup", days_to_keep |-> days_to_keep,
                             deleted |-> Len(db_history) - Len(kept)]
       ELSE /\ UNCHANGED <<db_history, db_stats>>
            /\ q_call' = [op |-> "cleanup", days_to_keep |-> days_to_keep,
                          deleted |-> 0]
    /\ UNCHANGED <<db_lock, l_pc, l_arg, l_txn, l_log, l_done, q_main, q_now, q_out>>
    /\ UNCHANGED <<schedVars, clientVars, detectorVars, senderVars, pureVars>>

CleanupInit ==
    /\ db_history \in SeqsUpTo(StoredResults, MaxRows)
    /\ db_stats \in {[j \in JobIds |-> NoRow], [j \in JobIds |-> SomeRow]}
    /\ db_lock = ""
    /\ l_pc = [t \in Threads |-> "idle"]
    /\ l_arg = [t \in Threads |-> NoResult]
    /\ l_txn = [t \in Threads |-> NoTxn]
    /\ l_log = <<>>
    /\ l_done = 0
    /\ q_main \in BOOLEAN
    /\ q_now \in Stamps
    /\ q_call = NoCleanup
    /\ q_out = <<>>
    /\ SchedInit /\ ClientIdle /\ DetectorIdle /\ SenderIdle /\ PureIdle

CleanupNext == \E days_to_keep \in DaysToKeep : CleanupOldLogs(days_to_keep)

CleanupSpec == CleanupInit /\ [][CleanupNext]_vars

\* C22: cleanup_old_logs deletes every record older than the cutoff and keeps
\* every record that is not older.
C22_CleanupDeletesOlder ==
    [][\A days_to_keep \in DaysToKeep :
          CleanupOldLogs(days_to_keep) =>
              db_history' = SelectSeq(db_history,
                                LAMBDA r : ~(r.timestamp < CutoffDate(q_now, days_to_keep)))]_vars

\* C23: cleanup_old_logs leaves every schedule_stats row as it was.
C23_CleanupKeepsStats ==
    [][\A days_to_keep \in DaysToKeep :
          CleanupOldLogs(days_to_keep) => db_stats' = db_stats]_vars

\* A cleanup that deleted history records of a store holding stats rows.
C23_Witness ==
    /\ q_call.op = "cleanup"
    /\ q_call.deleted > 0
    /\ \E j \in JobIds : db_stats[j].present

(***************************************************************************)
(* RequestLogger.get_request_history, over stores of any content.          *)
(***************************************************************************)
\* request_id values stored: the ids of the jobs that made the requests.
QueryIds == {"j1", "J1", "jx"}

QueryRows ==
    { [job |-> j, success |-> b, response_time_ms |-> 100, timestamp |-> t] :
          j \in QueryIds, b \in BOOLEAN, t \in Stamps }

\* The arguments of get_request_history.  schedule_id "" and the dates None
\* stand for arguments not given (both are falsy); success_filter is None or
\* the integer sqlite3 binds for the bool.
Queries ==
    [op : {"query"}, schedule_id : {"", "j1", "j_"}, limit : {1, 2},
     success_filter : {None, 0, 1}, start_date : {None, 1}, end_date : {None, 1}]

NoQuery == [op |-> "none", schedule_id |-> "", limit |-> 0, success_filter |-> None,
            start_date |-> None, end_date |-> None]

\* SQLite's LIKE: "%" matches any run of characters, "_" any one character,
\* and ASCII letters match without regard to case.
RECURSIVE Like(_, _)
Like(text, pattern) ==
    IF pattern = "" THEN text = ""
    ELSE LET c == SubSeq(pattern, 1, 1)
             rest == SubSeq(pattern, 2, Len(pattern))
         IN IF c = "%"
            THEN \E k \in 0..Len(text) : Like(SubSeq(text, k + 1, Len(text)), rest)
            ELSE /\ text # ""
                 /\ c = "_" \/ UpperChar(c) = UpperChar(SubSeq(text, 1, 1))
                 /\ Like(SubSeq(text, 2, Len(text)), rest)

\* bool(request_result.get('success', False)) as sqlite3 stores it.
StoredBool(b) == IF b THEN 1 ELSE 0

\* The WHERE clause built from the arguments.
Where(row, a) ==
    /\ a.schedule_id # "" => Like(row.job, a.schedule_id \o "%")
    /\ a.success_filter # None => StoredBool(row.success) = a.success_filter
    /\ a.start_date # None => row.timestamp >= a.start_date
    /\ a.end_date # None => row.timestamp <= a.end_date

\* ORDER BY timestamp DESC: the orders of the selected rows SQLite may
\* produce; rows of equal timestamp come in an order it does not specify.
OrderByTimestampDesc(history, ids) ==
    LET n == Cardinality(ids)
    IN { f \in [1..n -> ids] :
           /\ \A i, k \in 1..n : i # k => f[i] # f[k]
           /\ \A i \in 1..n : i < n => history[f[i]].timestamp >= history[f[i + 1]].timestamp }

\* LIMIT ?: a negative limit is no limit.
Limit(rows, limit) ==
    IF limit < 0 \/ limit >= Len(rows) THEN rows ELSE SubSeq(rows, 1, limit)

\* [dict(zip(columns, row)) for row in rows]
RowDicts(history, order) == [k \in DOMAIN order |-> [id |-> order[k], row |-> history[order[k]]]]

\* get_request_history(schedule_id, limit, success_filter, start_date, end_date);
\* one call is followed: a query leaves the store as it was.
GetRequestHistory(a) ==
    /\ db_lock = ""
    /\ q_call.op = "none"
    /\ \E order \in OrderByTimestampDesc(db_history,
                        {i \in DOMAIN db_history : Where(db_history[i], a)}) :
           q_out' = RowDicts(db_history, Limit(order, a.limit))
    /\ q_call' = a
    /\ UNCHANGED <<db_history, db_stats, db_lock, l_pc, l_arg, l_txn, l_log, l_done,
                   q_main, q_now>>
    /\ UNCHANGED <<schedVars, clientVars, detectorVars, senderVars, pureVars>>

QueryInit ==
    /\ db_history \in SeqsUpTo(QueryRows, MaxRows)
    /\ db_stats = [j \in JobIds |-> NoRow]
    /\ db_lock = ""
    /\ l_pc = [t \in Threads |-> "idle"]
    /\ l_arg = [t \in Threads |-> NoResult]
    /\ l_txn = [t \in Threads |-> NoTxn]
    /\ l_log = <<>>
    /\ l_done = 0
    /\ q_main = FALSE
    /\ q_now = 0
    /\ q_call = NoQuery
    /\ q_out = <<>>
    /\ SchedInit /\ ClientIdle /\ DetectorIdle /\ SenderIdle /\ PureIdle

QueryNext == \E a \in Queries : GetRequestHistory(a)

QuerySpec == QueryInit /\ [][QueryNext]_vars

\* The record satisfies the filters given: its job id begins with
\* schedule_id, its success flag is the one asked for, its timestamp lies in
\* the inclusive range.
Satisfies(row, a) ==
    /\ a.schedule_id # "" => StartsWith(row.job, a.schedule_id)
    /\ a.success_filter # None => StoredBool(row.success) = a.success_filter
    /\ a.start_date # None => row.timestamp >= a.start_date
    /\ a.end_date # None => row.timestamp <= a.end_date

\* C24: get_request_history returns stored records that satisfy all the
\* filters given, newest first, as many as the limit allows and none twice,
\* and no record left out is newer than one returned.
C24_HistoryMatchesFilters ==
    [][LET a == q_call'
           out == q_out'
           want == {i \in DOMAIN db_history : Satisfies(db_history[i], a)}
       IN (a.op = "query" /\ GetRequestHistory(a)) =>
             /\ \A k \in DOMAIN out : /\ out[k].id \in want
                                      /\ out[k].row = db_history[out[k].id]
             /\ \A i, k \in DOMAIN out : i # k => out[i].id # out[k].id
             /\ \A k \in DOMAIN out :
                    k < Len(out) => out[k].row.timestamp >= out[k + 1].row.timestamp
             /\ Len(out) = IF Cardinality(want) < a.limit THEN Cardinality(want)
                           ELSE a.limit
             /\ \A i \in want :
                    (\A k \in DOMAIN out : out[k].id # i) =>
                        \A k \in DOMAIN out :
                            out[k].row.timestamp >= db_history[i].timestamp]_vars

(***************************************************************************)
(* History store claims: the two relations                                 *)
(***************************************************************************)

\* The request_history rows of job j.
HistoryOf(j) == SelectSeq(db_history, LAMBDA e : e.job = j)

\* C25: the request_history rows and the schedule_stats counters agree at
\* every moment: a job's row counts exactly the results whose history row is
\* stored, successes and failures apart, also after a storage failure in the
\* middle of a recording.
C25_HistoryAndStatsTogether ==
    \A j \in JobIds :
        /\ db_stats[j].present <=> HistoryOf(j) # <<>>
        /\ db_stats[j].total_requests = Len(HistoryOf(j))
        /\ db_stats[j].successful_requests = Len(SelectSeq(HistoryOf(j), LAMBDA e : e.success))
        /\ db_stats[j].failed_requests = Len(SelectSeq(HistoryOf(j), LAMBDA e : ~e.success))

\* A recording failed at its commit, after both of its statements had been
\* executed, while another result of the same job was already stored.
C25_Witness ==
    \E t \in Threads :
        /\ l_pc[t] = "unlock"
        /\ l_txn[t].inserted
        /\ l_txn[t].row.total_requests = 2
        /\ Len(db_history) = 1

(***************************************************************************)
(* PipelineSpec: one execution through WebRequestTimer._request_callback   *)
(***************************************************************************)

\* The slots whose _execute_job is awaiting request_callback.
Executing == {s \in Slots : objs[s].task = "running"}

\* 'success' of the dict send_request returned.
CallbackSuccess == c_result.kind = "result" /\ c_result.success

\* "result = await client.send_request(schedule_config)" has returned.
SendReturned == c_pc = "done"

\* "self.request_logger.log_request_result(result, schedule_config)" has
\* returned.
LogReturned == l_done = 1

\* "self.udp_notifier.process_request_result(result, schedule_config)" has
\* returned.
ProcessReturned == d_last # NoCall

\* What _execute_job makes of the dict the callback returns.
OutcomeOf(success) == IF success THEN "success" ELSE "failure"

\* The schedules are registered and the scheduler runs until the first
\* execution starts; _execute_job then awaits request_callback.
PipelineSchedule ==
    /\ Executing = {}
    /\ ~SendReturned
    /\ \/ \E cfg \in SchedConfigs : cfg.id \notin Registered /\ AddSchedule(cfg)
       \/ Start
       \/ AdvanceTime
       \/ Tick
       \/ \E s \in Slots : ExecStart(s)

\* "async with WebRequestClient(global_settings) as client:
\*      result = await client.send_request(schedule_config)"
PipelineSend ==
    /\ Executing # {}
    /\ \/ AttemptBegin
       \/ \E o \in Outcomes : AttemptEnd(o)
       \/ RetrySleepDone

\* "self.request_logger.log_request_result(result, schedule_config)", on the
\* event loop's thread.
PipelineLog ==
    /\ Executing # {}
    /\ SendReturned
    /\ ~LogReturned
    /\ \/ \E s \in Executing, r \in LogResults :
              /\ r.job = objs[s].cfg.id
              /\ r.success = CallbackSuccess
              /\ LogCall("loop", r)
       \/ LockAcquire("loop")
       \/ HistoryInsert("loop")
       \/ StatsSelect("loop")
       \/ StatsWrite("loop")
       \/ Commit("loop")
       \/ StorageError("loop")
       \/ LockRelease("loop")

\* "self.udp_notifier.process_request_result(result, schedule_config)"
PipelineProcess ==
    /\ LogReturned
    /\ ~ProcessReturned
    /\ \E s \in Executing, r \in DetectorResults :
          /\ r.request_id = objs[s].cfg.id
          /\ r.success = CallbackSuccess
          /\ \/ ProcessDisabled(r)
             \/ ProcessSuccess(r)
             \/ ProcessFailure(r)

\* "return result", and _execute_job goes on with the dict.
PipelineReturn ==
    /\ ProcessReturned
    /\ \E s \in Executing : ExecFinish(s, OutcomeOf(CallbackSuccess))

PipelineCallback == PipelineSend \/ PipelineLog \/ PipelineProcess \/ PipelineReturn

PipelineInit ==
    /\ SchedInit
    /\ c_pc = "loop"
    /\ c_retry_count \in 0..1
    /\ c_attempt = 0
    /\ c_outcomes = <<>>
    /\ c_inflight = 0
    /\ c_result = [kind |-> "unset"]
    /\ c_body = NoTimestamp
    /\ c_clock = 0
    /\ c_sent = <<>>
    /\ db_history = <<>>
    /\ db_stats = [j \in JobIds |-> NoRow]
    /\ db_lock = ""
    /\ l_pc = [t \in Threads |-> "idle"]
    /\ l_arg = [t \in Threads |-> NoResult]
    /\ l_txn = [t \in Threads |-> NoTxn]
    /\ l_log = <<>>
    /\ l_done = 0
    /\ q_main = FALSE /\ q_now = 0 /\ q_call = <<>> /\ q_out = <<>>
    /\ udp_config \in {c \in UdpConfigs : c = DefaultConfig \/ ~c.enabled}
    /\ response_hashes = [j \in JobIds |-> NoHash]
    /\ notified_errors = {}
    /\ emitted = <<>>
    /\ d_last = NoCall
    /\ d_prev = [j \in JobIds |-> NoPast]
    /\ SenderIdle /\ PureIdle

PipelineNext == PipelineSchedule \/ PipelineCallback

\* The callback is synchronous code between awaits that time out: once
\* started it keeps taking steps.
PipelineSpec == PipelineInit /\ [][PipelineNext]_vars /\ WF_vars(PipelineCallback)

\* The recording of the execution's result failed: log_request_result is at
\* the end of "with self.db_lock:" and nothing was stored.
RecordingFailed == l_pc["loop"] = "unlock" /\ l_log = <<>>

\* C26: a storage failure while a result is recorded never aborts the job's
\* execution: log_request_result returns, the detector processes the same
\* result, the result is returned to the scheduler, and run_count and
\* next_run_time are updated as for any other execution.
C26_StorageFailureDoesNotAbort ==
    /\ RecordingFailed ~> (LogReturned /\ ProcessReturned /\ Executing = {})
    /\ [][\A s \in Slots :
            (ExecFinish(s, OutcomeOf(CallbackSuccess)) /\ l_log = <<>>) =>
                /\ d_last.result.request_id = objs[s].cfg.id
                /\ d_last.result.success = CallbackSuccess
                /\ jobs[objs[s].cfg.id] = s =>
                     /\ objs'[s].run_count = objs[s].run_count + 1
                     /\ objs'[s].last_result = OutcomeOf(CallbackSuccess)
                     /\ objs'[s].next_run_time =
                            CalculateNextRunTime(objs[s].cfg, RescheduleFrom(objs[s]))]_vars

\* The execution of a registered job has finished and counted its run,
\* although the recording of its result failed.
C26_Witness ==
    /\ LogReturned /\ l_log = <<>> /\ ProcessReturned
    /\ \E j \in Registered : objs[jobs[j]].task = "done" /\ objs[jobs[j]].run_count = 1

(***************************************************************************)
(* Detector claims: the stored hash                                        *)
(***************************************************************************)

\* C27: after every success the detector has processed, the hash stored for
\* the job is the hash of that success's body, whatever was notified and
\* whatever notify_on_success and notify_on_response_change are: the hash
\* every job's next success is compared with is that of its last success.
C27_HashStoredAlways ==
    /\ (d_last.processed /\ d_last.result.success) =>
           response_hashes[d_last.result.request_id] =
               CalculateResponseHash(d_last.result.response_body)
    /\ \A j \in JobIds :
           d_prev[j].seen => response_hashes[j] = d_prev[j].hash

\* A success whose body differs from the job's previous one was processed
\* and nothing was notified for it.
C27_Witness ==
    /\ d_last.processed /\ d_last.result.success
    /\ d_last.is_response_changed
    /\ emitted = <<>>
    /\ ~udp_config.notify_on_response_change

(***************************************************************************)
(* Client claims: the "auto" timestamp                                     *)
(***************************************************************************)

\* C28: when the job's structured body has timestamp "auto", every attempt
\* sends a body whose timestamp is the current time at that attempt, never a
\* time computed for an earlier attempt.
C28_AutoTimestampFresh ==
    \A i \in DOMAIN c_sent :
        c_sent[i].timestamp.kind = "text" => c_sent[i].timestamp.at = c_sent[i].at

(***************************************************************************)
(* Detector claims: update_config                                          *)
(***************************************************************************)

\* C29: update_config replaces the active configuration and sets the debounce
\* delay to the new delay_seconds, and leaves the tracked hashes and the open
\* failure keys as they are: afterwards a success with the body of the job's
\* previous success is classified unchanged, and a failure whose key is open
\* is not notified again.
C29_UpdateConfigKeepsTracking ==
    [][/\ udp_config' # udp_config =>
             /\ udp_config' \in NewUdpConfigs
             /\ s_delay' = DelaySeconds(udp_config')
             /\ UNCHANGED <<response_hashes, notified_errors>>
       /\ LET r == d_last'.result
              past == d_prev[r.request_id]
          IN /\ (r.success /\ ProcessSuccess(r) /\ past.seen
                   /\ CalculateResponseHash(r.response_body) = past.hash)
                   => (~d_last'.is_first_run /\ ~d_last'.is_response_changed)
             /\ (~r.success /\ r.request_id # "" /\ ProcessFailure(r)
                   /\ r.error \in past.notified)
                   => emitted' = <<>>]_vars

\* After update_config set the delay to 2 seconds, a success with the body of
\* the job's previous success was classified unchanged while a failure key is
\* open.
C29_Witness ==
    /\ udp_config.delay_seconds = 2 /\ s_delay = 2
    /\ d_last.processed /\ d_last.result.success
    /\ ~d_last.is_first_run /\ ~d_last.is_response_changed
    /\ notified_errors # {}

(***************************************************************************)
(* DormantSpec: _calculate_next_run_time fails at the end of an execution  *)
(***************************************************************************)

\* The finally block of _execute_job when _calculate_next_run_time returns
\* None: "Failed to calculate next run time for job ...".
FinallyNoNextRun(o) ==
    [o EXCEPT !.is_running = FALSE, !.next_run_time = None, !.task = "done"]

\* _execute_job of a cron job ends and croniter raises for the base time
\* job.last_run_time: _calculate_next_run_time logs it and returns None.
ExecFinishNoNextRun(s, outcome) ==
    /\ objs[s].task = "running"
    /\ ~objs[s].cancel_req
    /\ objs[s].cfg.schedule_type = "cron"
    /\ LET o == objs[s]
           o1 == IF outcome = "exception"
                 THEN [o EXCEPT !.error_count = @ + 1, !.last_result = "exception"]
                 ELSE [o EXCEPT !.run_count = @ + 1,
                                !.error_count = IF outcome = "failure" THEN @ + 1 ELSE @,
                                !.last_result = outcome]
       IN objs' = Collect([objs EXCEPT ![s] = FinallyNoNextRun(o1)])
    /\ stop_wait' = Woken(s)
    /\ UNCHANGED <<now, jobs, is_running, loop_alive, loop_cancelling, stop_pc,
                   stop_visited, stop_size>>
    /\ UNCHANGED <<disabled, ctl>>
    /\ SchedFrame

DormantNext ==
    \/ \E cfg \in SchedConfigs : AddSchedule(cfg)
    \/ Start
    \/ AdvanceTime
    \/ Tick
    \/ \E s \in Slots : ExecStart(s)
    \/ \E s \in Slots, outcome \in {"success", "failure", "exception"} : ExecFinish(s, outcome)
    \/ \E s \in Slots, outcome \in {"success", "failure", "exception"} :
          ExecFinishNoNextRun(s, outcome)

DormantSpec == Init /\ [][DormantNext]_vars

\* The slots of self.jobs.values().
JobsValues == {jobs[j] : j \in Registered}

\* The registered jobs whose next_run_time is None.
Dormant == {j \in Registered : objs[jobs[j]].next_run_time = None}

\* C30: when the recomputation of next_run_time fails at the end of an
\* execution, the job stays registered with next_run_time None; no tick
\* starts it until it is added again, and the loop and the other jobs go on.
C30_DormantAfterFailedRecompute ==
    [][/\ \A s \in Slots, outcome \in {"success", "failure", "exception"} :
             (ExecFinishNoNextRun(s, outcome) /\ s \in JobsValues) =>
                 /\ jobs' = jobs
                 /\ objs'[s].next_run_time = None
                 /\ is_running' = is_running /\ loop_alive' = loop_alive
                 /\ \A t \in Slots \ {s} :
                        t \in JobsValues => objs'[t] = objs[t]
       /\ \A j \in Dormant :
             \/ j \in Dormant' /\ objs'[jobs'[j]].task = objs[jobs[j]].task
             \/ \E cfg \in SchedConfigs : cfg.id = j /\ AddSchedule(cfg)]_vars

\* Job j2's recomputation failed after its first run and it is dormant at a
\* time it would be due again, while an execution of job j1 started later is
\* under way.
C30_Witness ==
    /\ "j2" \in Dormant /\ objs[jobs["j2"]].run_count = 1
    /\ "j1" \in Registered /\ objs[jobs["j1"]].task = "running"
    /\ objs[jobs["j1"]].last_run_time > objs[jobs["j2"]].last_run_time
    /\ is_running /\ loop_alive = 1

(***************************************************************************)
(* Scheduler claims: counters, isolation, ticks                            *)
(***************************************************************************)

\* C31: every execution that completes, with a success result, a failure
\* result or an exception of the request callback, increments run_count by
\* one and error_count by one exactly when the run failed; hence error_count
\* never exceeds run_count.
C31_CountersPerRun ==
    /\ [](\A s \in Slots : objs[s].error_count <= objs[s].run_count)
    /\ [][\A s \in JobsValues, outcome \in {"success", "failure", "exception"} :
             ExecFinish(s, outcome) =>
                 /\ objs'[s].run_count = objs[s].run_count + 1
                 /\ objs'[s].error_count =
                        objs[s].error_count + (IF outcome = "success" THEN 0 ELSE 1)]_vars

\* C32: a failed execution of one job, by a failure result or an exception of
\* the request callback, neither ends the tick loop nor changes another
\* registered job; the scheduler stays running, and every tick starts each
\* registered job that is due.
C32_FailureIsolated ==
    [][/\ \A s \in Slots, outcome \in {"failure", "exception"} :
             (objs[s].task = "running" /\ objs'[s].task # "running"
                  /\ ExecFinish(s, outcome)) =>
                 /\ is_running' = is_running
                 /\ loop_alive' = loop_alive /\ loop_cancelling' = loop_cancelling
                 /\ jobs' = jobs
                 /\ \A t \in JobsValues \ {s} : objs'[t] = objs[t]
       /\ (objs' # objs /\ Tick) =>
             \A t \in JobsValues :
                 (Due(objs[t]) /\ WithinRuns(objs[t])) => objs'[t].task = "created"]_vars

\* After an execution of job j1 ended with an exception, the scheduler is
\* running and a tick has started job j2, which was due.
C32_Witness ==
    /\ is_running /\ loop_alive = 1
    /\ "j1" \in Registered /\ objs[jobs["j1"]].last_result = "exception"
    /\ "j2" \in Registered /\ objs[jobs["j2"]].task = "created"
    /\ objs[jobs["j2"]].next_run_time >= objs[jobs["j1"]].last_run_time

(***************************************************************************)
(* ControlSpec: requests served by WebRequestTimerApp._scheduler_callback  *)
(***************************************************************************)
MaxRequests == 2

\* The enabled schedule of self.config['request_schedules'].
ConfigSchedule ==
    CHOOSE cfg \in SchedConfigs : cfg.id = "j1" /\ cfg.interval_seconds = 1

\* action 'start'.  With a running loop in the caller the coroutine
\* _start_scheduler_async becomes a task of that loop; without one (the tray
\* thread) it is run by asyncio.run on a loop of its own, and the
\* _scheduler_loop task start() creates there is cancelled when asyncio.run
\* ends.  _start_scheduler_async calls add_schedule for the enabled schedule
\* of the configuration and then start(); neither suspends.
ControlStart(outside) ==
    LET cfg == ConfigSchedule
        j == cfg.id
        present == jobs[j] # 0
        os1 == IF present THEN RemoveEffect(objs, j) ELSE objs
        next == CalculateNextRunTime(cfg, now)
    IN /\ ctl.n < MaxRequests
       /\ present => CanRemove(j)
       /\ ctl' = [n |-> ctl.n + 1, action |-> "start", outside |-> outside,
                  returned |-> TRUE]
       /\ disabled' = disabled \ {j}
       /\ stop_visited' = stop_visited \ {j}
       /\ stop_wait' = IF present THEN WaitAfterRemove(j) ELSE stop_wait
       /\ objs' = [os1 EXCEPT ![SlotOf(j)] = ScheduleJob(cfg, next)]
       /\ jobs' = [jobs EXCEPT ![j] = SlotOf(j)]
       /\ IF is_running
          THEN UNCHANGED <<is_running, loop_alive>>
          ELSE /\ is_running' = TRUE
               /\ loop_alive' = IF outside THEN loop_alive ELSE loop_alive + 1
       /\ UNCHANGED <<now, loop_cancelling, stop_pc, stop_size>>
       /\ SchedFrame

\* action 'stop' with no running loop in the caller: RequestScheduler has no
\* attribute stop_sync, the AttributeError is caught, logged, and the request
\* returns False.
ControlStopOutside ==
    /\ ctl.n < MaxRequests
    /\ ctl' = [n |-> ctl.n + 1, action |-> "stop", outside |-> TRUE, returned |-> FALSE]
    /\ UNCHANGED <<now, objs, jobs, is_running, loop_alive, loop_cancelling,
                   stop_pc, stop_wait, stop_visited, stop_size, disabled>>
    /\ SchedFrame

ControlNext ==
    \/ \E outside \in BOOLEAN : ControlStart(outside)
    \/ ControlStopOutside
    \/ StopBegin
    \/ LoopCancelled
    \/ StopLoopDone
    \/ StopVisit
    \/ Tick
    \/ \E s \in Slots : ExecStart(s)
    \/ \E s \in Slots, outcome \in {"success", "failure", "exception"} : ExecFinish(s, outcome)
    \/ \E s \in Slots : ExecCancelled(s)
    \/ AdvanceTime

ControlSpec == Init /\ [][ControlNext]_vars

\* The step serves the given request.
Serves(action, outside) ==
    ctl'.n = ctl.n + 1 /\ ctl'.action = action /\ ctl'.outside = outside

\* C33: a stop request made from outside the scheduler's event loop stops
\* the scheduler: when it has returned the running flag is false, and no
\* tick starts an execution until the scheduler is started again.
C33_StopFromOutside ==
    [][/\ Serves("stop", TRUE) => ~is_running'
       /\ (ctl.action = "stop" /\ Tick) => objs' = objs]_vars

\* C38: whenever the running flag is true a tick loop is alive, whatever
\* start and stop requests were served, also from outside the event loop.
C38_RunningHasLoop == is_running => loop_alive > 0

\* C39: a start request served while the scheduler is running changes no
\* registered job: run_count, error_count, last_result and next_run_time
\* stay, and no execution in flight is cancelled.
C39_StartWhileRunning ==
    [][\A outside \in BOOLEAN :
          (is_running /\ Serves("start", outside)) =>
              /\ jobs' = jobs
              /\ \A j \in Registered :
                    LET o == objs[jobs[j]]
                        p == objs'[jobs[j]]
                    IN /\ p.run_count = o.run_count
                       /\ p.error_count = o.error_count
                       /\ p.last_result = o.last_result
                       /\ p.next_run_time = o.next_run_time
              /\ \A s \in Slots : objs[s].task = "running" =>
                    \E t \in Slots : objs'[t].task = "running" /\ ~objs'[t].cancel_req]_vars

(***************************************************************************)
(* Scheduler claims: what starts an execution                              *)
(***************************************************************************)

\* C34: a task for a job is created only by a tick at which the scheduler
\* is running, the job is registered, its next_run_time is not None and not
\* after the current time, and the job is not running; no execution starts
\* before the job's next_run_time.
C34_StartedOnlyWhenDue ==
    [][\A s \in JobSlots :
          /\ (objs[s].task # "created" /\ objs'[s].task = "created") =>
                 /\ is_running /\ loop_alive > 0
                 /\ s \in JobsValues
                 /\ objs[s].next_run_time # None
                 /\ objs[s].next_run_time <= now
                 /\ ~objs[s].is_running
                 /\ objs'[s] = [objs[s] EXCEPT !.task = "created", !.cancel_req = FALSE]
          /\ (objs[s].task # "running" /\ objs'[s].task = "running") =>
                 /\ objs[s].task = "created"
                 /\ objs[s].next_run_time <= now
                 /\ objs'[s].last_run_time = now]_vars

\* A tick has created the task of job j1, which is due, and none for job j2,
\* which is registered and not yet due.
C34_Witness ==
    /\ "j1" \in Registered /\ objs[jobs["j1"]].task = "created"
    /\ "j2" \in Registered /\ objs[jobs["j2"]].task \notin {"created", "running"}
    /\ objs[jobs["j2"]].next_run_time > now
    /\ objs[jobs["j2"]].run_count = 0 /\ objs[jobs["j2"]].error_count = 0

(***************************************************************************)
(* TickSpec: the tick loop and the job tasks share one event loop          *)
(***************************************************************************)

\* The event loop is fair to the tick loop, whose sleep of one second ends,
\* and to the first step of every task it created; an execution awaiting
\* its request callback may stay suspended for ever.
TickSpec ==
    /\ Init /\ [][DormantNext]_vars
    /\ WF_vars(Tick)
    /\ \A s \in Slots : WF_vars(ExecStart(s))

\* Job j is registered and a tick of the running scheduler would start it.
DueRegistered(j) ==
    /\ is_running
    /\ j \in Registered
    /\ Due(objs[jobs[j]]) /\ WithinRuns(objs[jobs[j]])

\* C35: while the scheduler keeps running, every registered job whose
\* next_run_time has passed is eventually started, unless it is added anew
\* first, also while executions of other jobs stay in flight.
C35_DueJobsStarted ==
    \A j \in {"j1", "j2"} :
        DueRegistered(j) ~> (~DueRegistered(j) \/ TaskLive(objs[jobs[j]]))

\* Job j2 was started while the execution of job j1, started earlier, was
\* still in flight.
C35_Witness ==
    /\ "j1" \in Registered /\ objs[jobs["j1"]].task = "running"
    /\ "j2" \in Registered /\ objs[jobs["j2"]].task = "running"
    /\ objs[jobs["j2"]].last_run_time > objs[jobs["j1"]].last_run_time

(***************************************************************************)
(* RunSpec: executions end                                                 *)
(***************************************************************************)

\* One job, added, replaced, removed, executed and stopped.  The request
\* callback ends: its requests time out and its retries are bounded; a
\* cancellation is delivered at the await it is suspended in.
RunNext ==
    \/ \E cfg \in SchedConfigs : cfg.id = "j1" /\ AddSchedule(cfg)
    \/ RemoveSchedule("j1")
    \/ Start
    \/ StopBegin
    \/ LoopCancelled
    \/ StopLoopDone
    \/ StopVisit
    \/ Tick
    \/ \E s \in Slots : ExecStart(s)
    \/ \E s \in Slots, outcome \in {"success", "failure", "exception"} : ExecFinish(s, outcome)
    \/ \E s \in Slots : ExecCancelled(s)
    \/ AdvanceTime

RunSpec ==
    /\ Init /\ [][RunNext]_vars
    /\ \A s \in Slots :
          WF_vars(ExecCancelled(s)
                    \/ \E outcome \in {"success", "failure", "exception"} :
                          ExecFinish(s, outcome))

\* C36: no job stays Running for ever: every execution that set is_running
\* ends by clearing it and recomputing next_run_time, whether the callback
\* returned or raised or the execution was cancelled by stop() or
\* remove_schedule.
C36_RunningEnds ==
    /\ \A s \in Slots : objs[s].is_running ~> ~objs[s].is_running
    /\ [][\A s \in JobSlots :
             (objs[s].task = "running" /\ objs'[s].task = "done") =>
                 /\ objs[s].is_running /\ ~objs'[s].is_running
                 /\ objs'[s].next_run_time =
                        CalculateNextRunTime(objs[s].cfg, RescheduleFrom(objs[s]))]_vars

\* The execution of a job that remove_schedule cancelled has ended, and so
\* has one that stop() cancelled.
C36_Witness ==
    /\ stop_pc = "cancel_jobs" /\ stop_wait = 0
    /\ \E j \in Registered :
          /\ j \in stop_visited
          /\ objs[jobs[j]].task = "done" /\ objs[jobs[j]].cancel_req
          /\ ~objs[jobs[j]].is_running
          /\ objs[jobs[j]].last_run_time # None


(***************************************************************************)
(* send_message from two threads: the event-loop thread, where the job     *)
(* executions run, and the tray thread, whose 'test_request' runs           *)
(* _request_callback in an event loop of its own (main.py, asyncio.run).   *)
(***************************************************************************)
Armed == {k \in DOMAIN s_timers : s_timers[k].state = "armed"}

\* C40: at most one timer of the sender is armed at any time, whatever the
\* interleaving of the send_message calls of the two threads and of the
\* timers firing.
C40_AtMostOneArmed == Cardinality(Armed) <= 1


(***************************************************************************)
(* DebounceSpec: the sender as the job executions drive it, every call of  *)
(* send_message on the event-loop thread, with time that passes and timers *)
(* that run: threading.Timer waits in a thread of its own, which is        *)
(* scheduled.                                                              *)
(***************************************************************************)
\* The clock moves on past MaxClock for as long as an armed timer waits.
AwaitTimer ==
    /\ s_now >= MaxClock
    /\ \E k \in Armed : s_timers[k].due > s_now
    /\ \A k \in Armed : s_timers[k].due > s_now
    /\ s_now' = s_now + 1
    /\ UNCHANGED <<s_delay, s_timer, s_timers, s_sent, s_pc, s_msg>>
    /\ SenderFrame

Fire == \E k \in DOMAIN s_timers : TimerFires(k)

DebounceNext ==
    \/ SendMessageCancel("loop")
    \/ SendMessageArm("loop")
    \/ Fire
    \/ AdvanceClock
    \/ AwaitTimer

DebounceSpec ==
    /\ SenderInit /\ [][DebounceNext]_vars
    /\ WF_vars(SendMessageArm("loop"))
    /\ WF_vars(Fire)
    /\ WF_vars(AdvanceClock \/ AwaitTimer)

\* send_message was called with payload n.
Called(n) ==
    \/ \E k \in DOMAIN s_timers : s_timers[k].message.n = n
    \/ \E t \in Threads : s_msg[t].n = n

\* A further call of send_message arrived before the timer of payload n was
\* over.
Superseded(n) ==
    \/ \E t \in Threads : s_msg[t].n > n
    \/ \E i, j \in DOMAIN s_timers :
          /\ s_timers[i].message.n = n
          /\ i < j
          /\ s_timers[j].message.at <= s_timers[i].due

Transmitted(n) == \E i \in DOMAIN s_sent : s_sent[i].n = n

\* C37: a call of send_message with no further call within the delay leads
\* to the transmission of its payload; a payload is transmitted at most once,
\* a payload followed by no further call within the delay exactly when its
\* timer has fired; and a timer that fires transmits the payload of the most
\* recent call of send_message.
C37_EventuallyTransmitted ==
    /\ \A n \in 1..MaxSends : Called(n) ~> (Transmitted(n) \/ Superseded(n))
    /\ [](\A k \in DOMAIN s_timers :
             /\ Transmissions(s_timers[k].message)
                    = (IF s_timers[k].state = "fired" THEN 1 ELSE 0)
             /\ s_timers[k].state = "cancelled" => Superseded(s_timers[k].message.n))
    /\ [][Len(s_sent') > Len(s_sent) =>
              /\ Len(s_sent') = Len(s_sent) + 1
              /\ s_sent'[Len(s_sent')].n = NextN - 1
              /\ s_sent'[Len(s_sent')] = s_timers[Len(s_timers)].message]_vars

\* C37 witness: three calls; the second came within the delay of the first,
\* the third after the second payload was transmitted; two datagrams, the
\* second payload and the third.
C37_Witness ==
    /\ Len(s_timers) = 3
    /\ s_pc["loop"] = "idle"
    /\ s_timers[1].state = "cancelled"
    /\ s_timers[2].state = "fired"
    /\ s_timers[3].state = "fired"
    /\ s_timers[3].message.at > s_timers[2].due
    /\ s_sent = <<s_timers[2].message, s_timers[3].message>>

====
